---------------------------- MODULE Spec2Model ----------------------------
(***************************************************************************)
(* Command relay of the smart home: a coordinator ("home") and a           *)
(* peripheral ("socket") exchange framed text commands over TCP.  Each     *)
(* hosting entity runs an Acceptor, one Reader per accepted connection, an *)
(* Analyzer and a Sender; they share a connection registry and two         *)
(* command queues, each behind a std::sync::Mutex.                         *)
(*                                                                         *)
(* A text is a sequence of one-character strings.  A Rust panic ends the   *)
(* panicking thread and poisons every mutex whose guard it still holds.    *)
(***************************************************************************)
EXTENDS Integers, Sequences, FiniteSets, TLC

\* ------------------------------------------------------------- bounds
\* connections the environment and try_register may open in one run
MaxConns == 2
\* frames one generic peer may write on its connection
MaxFrames == 2
\* calls of save_tcp_client the application makes
MaxSaves == 1
\* Err items the listener's incoming() sequence yields per hosting entity
MaxAcceptErrs == 1
\* calls of Socket::try_register
MaxTry == 1
\* commands the application writes on an inbound queue
MaxAppPushes == 2
\* characters of a short text given to send_string
MaxTextLen == 2
\* runs of 2^30 letters at the start of a long text given to send_string
MaxBlocks == 4
\* calls of send_string on one stream
MaxSends == 2
\* calls of recv_string on one stream
MaxRecvs == 2
\* elements an entity list of the schema grows to
MaxHeld == 3
\* devices the device store grows to
MaxDevices == 2
\* devices connect_device connects to one entity
MaxConnected == 1

\* ------------------------------------------------------------- texts
WordChars ==
  {"a","b","c","d","e","f","g","h","i","j","k","l","m","n","o","p","q","r","s",
   "t","u","v","w","x","y","z","A","B","C","D","E","F","G","H","I","J","K","L",
   "M","N","O","P","Q","R","S","T","U","V","W","X","Y","Z","0","1","2","3","4",
   "5","6","7","8","9","_"}

SpaceChars == {" ", "\t", "\n"}

RegisterVerb == <<"r","e","g","i","s","t","e","r">>
OkVerb == <<"O","K">>
InfoVerb == <<"i","n","f","o">>
DeviceInfoVerb == <<"d","e","v","i","c","e","_","i","n","f","o">>

\* name of the socket of examples/tcp_home.rs
SocketName == <<"S","0","1">>

\* Socket::info(): a multi-line text with spaces and punctuation
SocketInfo == <<"[","S","O","C","K","E","T","]"," ","S","0","1","\n","S","0","1">>

\* TcpCommand::new
TcpCommand(command, args, sender) ==
  [command |-> command, args |-> args, sender |-> sender]

\* impl ToString for TcpCommand: format!("[{}: [{}]]", command, args)
to_string(cmd) ==
  <<"[">> \o cmd.command \o <<":", " ", "[">> \o cmd.args \o <<"]", "]">>

\* format!("[register: [{}]]", self.name)
RegisterText(name) == <<"[">> \o RegisterVerb \o <<":", " ", "[">> \o name \o <<"]", "]">>

\* the literal "[OK: []]" try_register compares the reply with
OkText == <<"[","O","K",":"," ","[","]","]">>

\* first index >= i of t that holds no character of set cs (Len(t)+1 if none)
RECURSIVE RunEnd(_, _, _)
RunEnd(t, i, cs) ==
  IF i > Len(t) THEN i
  ELSE IF t[i] \in cs THEN RunEnd(t, i + 1, cs) ELSE i

\* Regex \[(\w+):\s*\[(\w+)\]\] matched with its first character at index i
MatchAt(t, i) ==
  LET j == RunEnd(t, i + 1, WordChars)
      k == RunEnd(t, j + 1, SpaceChars)
      m == RunEnd(t, k + 1, WordChars)
  IN  /\ i <= Len(t) /\ t[i] = "["
      /\ j > i + 1 /\ j <= Len(t) /\ t[j] = ":"
      /\ k <= Len(t) /\ t[k] = "["
      /\ m > k + 1 /\ m + 1 <= Len(t) /\ t[m] = "]" /\ t[m + 1] = "]"

\* Regex::captures: the leftmost match anywhere in the text, or none
IsMatch(t) == \E i \in 1..Len(t) : MatchAt(t, i)

Captures(t) ==
  LET i == CHOOSE x \in 1..Len(t) :
             MatchAt(t, x) /\ \A y \in 1..(x - 1) : ~MatchAt(t, y)
      j == RunEnd(t, i + 1, WordChars)
      k == RunEnd(t, j + 1, SpaceChars)
      m == RunEnd(t, k + 1, WordChars)
  IN  [command |-> SubSeq(t, i + 1, j - 1), args |-> SubSeq(t, k + 1, m - 1)]

\* ------------------------------------------------------------- queues
\* VecDeque: index 1 is the front, Len(q) the back
\* mutation of PushFront: push_back
PushBack(q, x) == Append(q, x)

\* VecDeque::push_front
PushFront(q, x) == <<x>> \o q

\* mutation of PopBack: pop_front
PopFront(q) == [value |-> Head(q), rest |-> Tail(q)]

\* VecDeque::pop_back on a non-empty deque: the value and the deque left
PopBack(q) == [value |-> q[Len(q)], rest |-> SubSeq(q, 1, Len(q) - 1)]

\* ------------------------------------------------------------- entities
Hosts == {"home", "socket"}
Conns == 1..MaxConns

\* SocketAddr::to_string() of the peer of connection c
PeerAddrs == <<"127.0.0.1:40001", "127.0.0.1:40002", "127.0.0.1:40003",
               "127.0.0.1:40004", "127.0.0.1:40005">>
PeerAddr(c) == PeerAddrs[c]

\* a TcpConnection the application built itself and handed to save_tcp_client
AppStream == 0

HomeKey == "home"
SaveNames == {PeerAddr(c) : c \in Conns} \cup {HomeKey}

Garbage == <<"[","g","a","r","b","a","g","e","]">>

\* frames a generic peer writes
PeerFrames ==
  { RegisterText(<<"d","e","v","0","1">>),
    to_string(TcpCommand(InfoVerb, <<"a","l","l">>, "")),
    Garbage }

\* replies of a foreign coordinator to a register frame
ReplyTexts ==
  { OkText,
    to_string(TcpCommand(InfoVerb, <<>>, "")),
    <<"[","O","K",":","[","]","]">> }

NoCmd == TcpCommand(<<>>, <<>>, "")

\* no text: recv_string has returned nothing (yet)
NoReply == <<"<none>">>

VARIABLES
  deployment,   \* "composed": home and socket in one process (examples/tcp_home.rs);
                \* "standalone": the socket alone, HOME_PORT served by a foreign coordinator
  connKind,     \* who opened connection c: "none", "peer" or "try" (try_register)
  connHost,     \* the entity that accepts connection c: a host, "stub" or "none"
  peerState,    \* the client end of c: "idle", "open", "closed" (FIN) or "reset" (RST)
  hostSide,     \* the server end of c: "none", "backlog", "open" or "dropped"
  c2h,          \* frames written by the client and not yet read by the server
  h2c,          \* frames written by the server to the client, in order
  framesSent,   \* frames a generic peer has written on c
  backlog,      \* per host: connections the listener holds for incoming()
  accPC,        \* per host: the Acceptor thread
  acceptErrs,   \* per host: Err items the Acceptor has logged
  rdPC,         \* per connection: its Reader thread
  rdCmd,        \* per connection: the command and args the Reader has captured
  registry,     \* per host: tcp_clients, key -> connection
  regPoison,    \* per host: the tcp_clients mutex is poisoned
  inPoison,     \* per host: the commands (inbound) mutex is poisoned
  outPoison,    \* per host: the commands_out mutex is poisoned
  devPoison,    \* the Mutex<Socket> is poisoned
  commandsIn,   \* per host: the inbound VecDeque
  commandsOut,  \* per host: the outbound VecDeque
  anPC, anCmd,  \* per host: the Analyzer thread and the command it is handling
  sdPC, sdCmd,  \* per host: the Sender thread and the command it is sending
  tryPC,        \* the thread that calls Socket::try_register
  tryConn,      \* the connection of the try_register call in progress
  tryCount,     \* calls of try_register begun
  tryReply,     \* the text the last recv_string of try_register returned, if any
  saves,        \* calls of save_tcp_client made by the application
  appPushes,    \* commands the application has written on an inbound queue
  inPushed, inPopped,    \* per host: every command pushed on / popped from commands
  outPushed, outPopped,  \* per host: every command pushed on / popped from commands_out
  wire,         \* a byte stream: the bytes written on it and not read yet
  injected,     \* bytes were put on wire by something other than send_string
  sent,         \* the texts send_string was called with on wire, in order
  received,     \* the calls of recv_string on wire, in order
  links,        \* StoreDeviceLinks.links of a Home: entity name -> names it holds
  devices,      \* StoreDevices.devices of that Home, in order
  callFlip,     \* flips at every call of the room/device API of that Home
  lastRes,      \* what the last such call returned: "ok", "err", "panic"; "none" before
  roomCallsOnly, \* no function but add_room and remove_room has been called on it
  addedOk       \* the device names add_device returned Ok for, and remove_device has not since

netVars == <<connKind, connHost, peerState, hostSide, c2h, h2c, framesSent, backlog>>
accVars == <<accPC, acceptErrs>>
rdVars == <<rdPC, rdCmd>>
poisonVars == <<regPoison, inPoison, outPoison, devPoison>>
queueVars == <<commandsIn, commandsOut>>
anVars == <<anPC, anCmd>>
sdVars == <<sdPC, sdCmd>>
tryVars == <<tryPC, tryConn, tryCount, tryReply>>
appVars == <<saves, appPushes>>
logVars == <<inPushed, inPopped, outPushed, outPopped>>

codecVars == <<wire, injected, sent, received>>
crudVars == <<links, devices, callFlip, lastRes, roomCallsOnly, addedOk>>

vars == <<deployment, netVars, accVars, rdVars, registry, poisonVars, queueVars,
          anVars, sdVars, tryVars, appVars, logVars, codecVars, crudVars>>

\* the threads of host h exist
Present(h) == h = "socket" \/ deployment = "composed"

\* the listener the environment connects to: the coordinator's in the composed
\* deployment, the socket's own when the socket runs alone
Reachable(h) == h = (IF deployment = "composed" THEN "home" ELSE "socket")

\* ------------------------------------------------------------- locks
\* The Reader keeps the guard of tcp_clients from handle_function's first line on.
ReaderHoldsRegistry(c) == rdPC[c] \in {"recv", "parsed"}

\* The Sender keeps the guard of commands_out through the body of its while-let,
\* and the guard of tcp_clients from the lookup to the end of the body.
SenderHoldsOut(h) == sdPC[h] \in {"popped", "send"}
SenderHoldsRegistry(h) == sdPC[h] = "send"

\* The Analyzer keeps the guard of commands through the body of its while-let.
AnalyzerHoldsIn(h) == anPC[h] \in {"push1", "push2"}

RegFree(h) ==
  /\ ~SenderHoldsRegistry(h)
  /\ \A c \in Conns : connHost[c] = h => ~ReaderHoldsRegistry(c)
InFree(h) == ~AnalyzerHoldsIn(h)
OutFree(h) == ~SenderHoldsOut(h)

\* examples/tcp_home.rs: try_register runs under the guard of Mutex<Socket>
DevHeld == tryPC = "await"

\* ------------------------------------------------------------- room/device names
\* the root of the schema (stores.rs)
HOME_NAME == "HOME"

\* the names a caller passes for rooms and devices
EntityNames == {HOME_NAME, "Kitchen", "Hall"}

\* what Device::info() can return for a device of one name
DeviceInfos == {"i1", "i2"}

\* ------------------------------------------------------------- Init
\* the threads, queues and connections right after main has built the entities
InitThreads ==
  /\ connKind = [c \in Conns |-> "none"]
  /\ connHost = [c \in Conns |-> "none"]
  /\ peerState = [c \in Conns |-> "idle"]
  /\ hostSide = [c \in Conns |-> "none"]
  /\ c2h = [c \in Conns |-> <<>>]
  /\ h2c = [c \in Conns |-> <<>>]
  /\ framesSent = [c \in Conns |-> 0]
  /\ backlog = [h \in Hosts |-> <<>>]
  /\ accPC = [h \in Hosts |-> "running"]
  /\ acceptErrs = [h \in Hosts |-> 0]
  /\ rdPC = [c \in Conns |-> "none"]
  /\ rdCmd = [c \in Conns |-> NoCmd]
  /\ regPoison = [h \in Hosts |-> FALSE]
  /\ inPoison = [h \in Hosts |-> FALSE]
  /\ outPoison = [h \in Hosts |-> FALSE]
  /\ devPoison = FALSE
  /\ commandsIn = [h \in Hosts |-> <<>>]
  /\ commandsOut = [h \in Hosts |-> <<>>]
  /\ anPC = [h \in Hosts |-> "idle"]
  /\ anCmd = [h \in Hosts |-> NoCmd]
  /\ sdPC = [h \in Hosts |-> "idle"]
  /\ sdCmd = [h \in Hosts |-> NoCmd]
  /\ tryPC = "idle"
  /\ tryConn = 0
  /\ tryCount = 0
  /\ tryReply = NoReply
  /\ saves = 0
  /\ appPushes = 0
  /\ inPushed = [h \in Hosts |-> <<>>]
  /\ inPopped = [h \in Hosts |-> <<>>]
  /\ outPushed = [h \in Hosts |-> <<>>]
  /\ outPopped = [h \in Hosts |-> <<>>]
  /\ wire = <<>>
  /\ injected = FALSE
  /\ sent = <<>>
  /\ received = <<>>
  /\ links = [k \in {HOME_NAME} |-> <<>>]
  /\ devices = <<>>
  /\ callFlip = FALSE
  /\ lastRes = "none"
  /\ roomCallsOnly = TRUE
  /\ addedOk = {}

Init ==
  /\ deployment \in {"composed", "standalone"}
  /\ registry = [h \in Hosts |-> <<>>]
  /\ InitThreads

\* the connection a new TcpStream::connect gets
NextConn == CHOOSE c \in Conns : peerState[c] = "idle" /\ \A d \in 1..(c - 1) : peerState[d] # "idle"
CanConnect == \E c \in Conns : peerState[c] = "idle"


\* ------------------------------------------------------------- registry
\* HashMap::contains_key, HashMap::insert, HashMap::get_mut
ContainsKey(reg, k) == k \in DOMAIN reg

\* mutation of Insert: the map is cleared before the entry is stored
InsertCleared(reg, k, v) == [x \in {k} |-> v]

Insert(reg, k, v) == [x \in (DOMAIN reg) \cup {k} |-> IF x = k THEN v ELSE reg[x]]

\* the server ends that close when the value v leaves the registry of a host
DropValue(hs, v) == IF v \in Conns THEN [hs EXCEPT ![v] = "dropped"] ELSE hs

\* ------------------------------------------------------------- generic peers
\* A peer opens a TCP connection to the listener of host h.
PeerConnect(h) ==
  /\ Reachable(h)
  /\ CanConnect
  /\ LET c == NextConn IN
       /\ connKind' = [connKind EXCEPT ![c] = "peer"]
       /\ connHost' = [connHost EXCEPT ![c] = h]
       /\ peerState' = [peerState EXCEPT ![c] = "open"]
       /\ hostSide' = [hostSide EXCEPT ![c] = "backlog"]
       /\ backlog' = [backlog EXCEPT ![h] = Append(@, c)]
  /\ UNCHANGED <<codecVars, crudVars, deployment, c2h, h2c, framesSent, accVars, rdVars, registry,
                 poisonVars, queueVars, anVars, sdVars, tryVars, appVars, logVars>>

\* A peer writes one frame.
PeerSend(c, f) ==
  /\ connKind[c] = "peer"
  /\ peerState[c] = "open"
  /\ hostSide[c] # "dropped"
  /\ framesSent[c] < MaxFrames
  /\ c2h' = [c2h EXCEPT ![c] = Append(@, f)]
  /\ framesSent' = [framesSent EXCEPT ![c] = @ + 1]
  /\ UNCHANGED <<codecVars, crudVars, deployment, connKind, connHost, peerState, hostSide, h2c, backlog,
                 accVars, rdVars, registry, poisonVars, queueVars, anVars, sdVars,
                 tryVars, appVars, logVars>>

\* A peer closes its end (FIN): the server reads what was written, then end of stream.
PeerClose(c) ==
  /\ connKind[c] = "peer"
  /\ peerState[c] = "open"
  /\ peerState' = [peerState EXCEPT ![c] = "closed"]
  /\ UNCHANGED <<codecVars, crudVars, deployment, connKind, connHost, hostSide, c2h, h2c, framesSent,
                 backlog, accVars, rdVars, registry, poisonVars, queueVars, anVars,
                 sdVars, tryVars, appVars, logVars>>

\* A peer aborts the connection (RST): unread data is discarded, and every later
\* operation of the server on the stream (read, write, peer_addr) fails.
PeerReset(c) ==
  /\ connKind[c] = "peer"
  /\ peerState[c] = "open"
  /\ peerState' = [peerState EXCEPT ![c] = "reset"]
  /\ c2h' = [c2h EXCEPT ![c] = <<>>]
  /\ UNCHANGED <<codecVars, crudVars, deployment, connKind, connHost, hostSide, h2c, framesSent,
                 backlog, accVars, rdVars, registry, poisonVars, queueVars, anVars,
                 sdVars, tryVars, appVars, logVars>>

\* TcpConnection::peer_addr
PeerAddrFails(c) == peerState[c] = "reset"

\* ------------------------------------------------------------- Acceptor
\* start_receive, one Ok item of incoming(): peer_addr().unwrap(), then the Reader
\* thread is spawned.
AcceptOk(h) ==
  /\ Present(h)
  /\ accPC[h] = "running"
  /\ backlog[h] # <<>>
  /\ LET c == Head(backlog[h]) IN
       /\ backlog' = [backlog EXCEPT ![h] = Tail(@)]
       /\ IF PeerAddrFails(c)
            THEN /\ accPC' = [accPC EXCEPT ![h] = "panicked"]
                 /\ hostSide' = [hostSide EXCEPT ![c] = "dropped"]
                 /\ rdPC' = rdPC
            ELSE /\ accPC' = accPC
                 /\ hostSide' = [hostSide EXCEPT ![c] = "open"]
                 /\ rdPC' = [rdPC EXCEPT ![c] = "spawned"]
  /\ UNCHANGED <<codecVars, crudVars, deployment, connKind, connHost, peerState, c2h, h2c, framesSent,
                 acceptErrs, rdCmd, registry, poisonVars, queueVars, anVars, sdVars,
                 tryVars, appVars, logVars>>

\* start_receive, one Err item of incoming(): println and next item.
AcceptErr(h) ==
  /\ Reachable(h)
  /\ accPC[h] = "running"
  /\ acceptErrs[h] < MaxAcceptErrs
  /\ acceptErrs' = [acceptErrs EXCEPT ![h] = @ + 1]
  /\ UNCHANGED <<codecVars, crudVars, deployment, netVars, accPC, rdVars, registry, poisonVars, queueVars,
                 anVars, sdVars, tryVars, appVars, logVars>>

\* ------------------------------------------------------------- Reader
\* Reader thread, first statements: peer_addr().unwrap(), then
\* tcp_clients.lock().unwrap().insert(addr, tcp_connection).unwrap().
\* insert returns the value it replaced: None for a new key.
ReaderInsertOutcome(reg, poisoned, k) ==
  IF poisoned THEN "poisoned"
  ELSE IF ContainsKey(reg, k) THEN "replaced" ELSE "none"

ReaderInsert(c) ==
  LET h == connHost[c]
      k == PeerAddr(c)
  IN
  /\ rdPC[c] = "spawned"
  /\ \/ /\ PeerAddrFails(c)
        /\ rdPC' = [rdPC EXCEPT ![c] = "panicked"]
        /\ hostSide' = [hostSide EXCEPT ![c] = "dropped"]
        /\ UNCHANGED <<registry, regPoison>>
     \/ /\ ~PeerAddrFails(c)
        /\ RegFree(h)
        /\ LET out == ReaderInsertOutcome(registry[h], regPoison[h], k) IN
           CASE out = "poisoned" ->
                  \* lock().unwrap() panics; the connection is dropped with the thread
                  /\ rdPC' = [rdPC EXCEPT ![c] = "panicked"]
                  /\ hostSide' = [hostSide EXCEPT ![c] = "dropped"]
                  /\ UNCHANGED <<registry, regPoison>>
             [] out = "none" ->
                  \* the entry is stored, then unwrap() of None panics under the guard
                  /\ registry' = [registry EXCEPT ![h] = Insert(@, k, c)]
                  /\ regPoison' = [regPoison EXCEPT ![h] = TRUE]
                  /\ rdPC' = [rdPC EXCEPT ![c] = "panicked"]
                  /\ hostSide' = hostSide
             [] out = "replaced" ->
                  /\ registry' = [registry EXCEPT ![h] = Insert(@, k, c)]
                  /\ hostSide' = DropValue(hostSide, registry[h][k])
                  /\ rdPC' = [rdPC EXCEPT ![c] = "inserted"]
                  /\ regPoison' = regPoison
  /\ UNCHANGED <<codecVars, crudVars, deployment, connKind, connHost, peerState, c2h, h2c, framesSent,
                 backlog, accVars, rdCmd, inPoison, outPoison, devPoison, queueVars,
                 anVars, sdVars, tryVars, appVars, logVars>>

\* handle_function, before the loop: tcp_clients.lock(), as_mut().unwrap(),
\* get_mut(addr).unwrap().  The guard lives until handle_function returns.
ReaderLock(c) ==
  LET h == connHost[c] IN
  /\ rdPC[c] = "inserted"
  /\ RegFree(h)
  /\ IF regPoison[h]
       THEN /\ rdPC' = [rdPC EXCEPT ![c] = "panicked"]
            /\ regPoison' = regPoison
       ELSE IF ~ContainsKey(registry[h], PeerAddr(c))
         THEN /\ rdPC' = [rdPC EXCEPT ![c] = "panicked"]
              /\ regPoison' = [regPoison EXCEPT ![h] = TRUE]
         ELSE /\ rdPC' = [rdPC EXCEPT ![c] = "recv"]
              /\ regPoison' = regPoison
  /\ UNCHANGED <<codecVars, crudVars, deployment, netVars, accVars, rdCmd, registry, inPoison, outPoison,
                 devPoison, queueVars, anVars, sdVars, tryVars, appVars, logVars>>

\* what receive_request() does now: "blocked", "error" or "frame"
ReceiveOutcome(c) ==
  IF peerState[c] = "reset" THEN "error"
  ELSE IF c2h[c] # <<>> THEN "frame"
  ELSE IF peerState[c] = "closed" THEN "error"
  ELSE "blocked"

\* handle_function, loop body up to the captures: receive_request()?, then
\* re.captures(request).unwrap() and the two groups.
\* mutation of ReceiveErrorEnds: unwrap() in place of ?, a panic under the guard
ReceiveErrorPanics == [pc |-> "panicked", poison |-> TRUE]

\* receive_request()? on an Err: handle_function returns the Err to the thread's
\* closure, which prints "Connection is closed"; the guard is released unpoisoned.
ReceiveErrorEnds == [pc |-> "done", poison |-> FALSE]

ReaderReceive(c) ==
  LET h == connHost[c] IN
  /\ rdPC[c] = "recv"
  /\ ReceiveOutcome(c) # "blocked"
  /\ IF ReceiveOutcome(c) = "error"
       THEN /\ rdPC' = [rdPC EXCEPT ![c] = ReceiveErrorEnds.pc]
            /\ regPoison' = [regPoison EXCEPT ![h] = @ \/ ReceiveErrorEnds.poison]
            /\ UNCHANGED <<c2h, rdCmd>>
       ELSE LET request == Head(c2h[c]) IN
            /\ c2h' = [c2h EXCEPT ![c] = Tail(@)]
            /\ IF IsMatch(request)
                 THEN /\ rdCmd' = [rdCmd EXCEPT ![c] =
                                     TcpCommand(Captures(request).command,
                                                Captures(request).args, "")]
                      /\ rdPC' = [rdPC EXCEPT ![c] = "parsed"]
                      /\ regPoison' = regPoison
                 ELSE \* captures() is None: unwrap() panics under the guard
                      /\ rdPC' = [rdPC EXCEPT ![c] = "panicked"]
                      /\ regPoison' = [regPoison EXCEPT ![h] = TRUE]
                      /\ rdCmd' = rdCmd
  /\ UNCHANGED <<codecVars, crudVars, deployment, connKind, connHost, peerState, hostSide, h2c, framesSent,
                 backlog, accVars, registry, inPoison, outPoison, devPoison, queueVars,
                 anVars, sdVars, tryVars, appVars, logVars>>

\* handle_function, rest of the loop body: peer_addr().unwrap(), TcpCommand::new,
\* tcp_commands.lock().unwrap().push_front(tcp_command).
ReaderPush(c) ==
  LET h == connHost[c]
      tcp_command == TcpCommand(rdCmd[c].command, rdCmd[c].args, PeerAddr(c))
  IN
  /\ rdPC[c] = "parsed"
  /\ \/ /\ PeerAddrFails(c)
        /\ rdPC' = [rdPC EXCEPT ![c] = "panicked"]
        /\ regPoison' = [regPoison EXCEPT ![h] = TRUE]
        /\ UNCHANGED <<commandsIn, inPushed>>
     \/ /\ ~PeerAddrFails(c)
        /\ InFree(h)
        /\ IF inPoison[h]
             THEN /\ rdPC' = [rdPC EXCEPT ![c] = "panicked"]
                  /\ regPoison' = [regPoison EXCEPT ![h] = TRUE]
                  /\ UNCHANGED <<commandsIn, inPushed>>
             ELSE /\ commandsIn' = [commandsIn EXCEPT ![h] = PushFront(@, tcp_command)]
                  /\ inPushed' = [inPushed EXCEPT ![h] = Append(@, tcp_command)]
                  /\ rdPC' = [rdPC EXCEPT ![c] = "recv"]
                  /\ regPoison' = regPoison
  /\ rdCmd' = [rdCmd EXCEPT ![c] = NoCmd]
  /\ UNCHANGED <<codecVars, crudVars, deployment, netVars, accVars, registry, inPoison, outPoison,
                 devPoison, commandsOut, anVars, sdVars, tryVars, appVars,
                 inPopped, outPushed, outPopped>>


\* ------------------------------------------------------------- Analyzer
\* job_analyze_commands: the verb the entity answers
DispatchVerb(h) == IF h = "home" THEN RegisterVerb ELSE InfoVerb

\* mutation of Responses: info is enqueued before OK
ResponsesInfoFirst(h, command_in) ==
  IF command_in.command # DispatchVerb(h) THEN <<>>
  ELSE IF h = "home"
    THEN << TcpCommand(InfoVerb, <<>>, command_in.sender),
            TcpCommand(OkVerb, <<>>, command_in.sender) >>
    ELSE << TcpCommand(DeviceInfoVerb, SocketInfo, command_in.sender) >>

\* mutation of Responses: the answers are addressed to the logical name "home"
\* instead of the sender of command_in
ResponsesToName(h, command_in) ==
  IF command_in.command # DispatchVerb(h) THEN <<>>
  ELSE IF h = "home"
    THEN << TcpCommand(OkVerb, <<>>, HomeKey),
            TcpCommand(InfoVerb, <<>>, HomeKey) >>
    ELSE << TcpCommand(DeviceInfoVerb, SocketInfo, HomeKey) >>

\* mutation of Responses: device_info is sent with empty args
ResponsesNoInfoText(h, command_in) ==
  IF command_in.command # DispatchVerb(h) THEN <<>>
  ELSE IF h = "home"
    THEN << TcpCommand(OkVerb, <<>>, command_in.sender),
            TcpCommand(InfoVerb, <<>>, command_in.sender) >>
    ELSE << TcpCommand(DeviceInfoVerb, <<>>, command_in.sender) >>

\* mutation of Responses: the verb of command_in is not looked at
ResponsesAnyVerb(h, command_in) ==
  IF h = "home"
    THEN << TcpCommand(OkVerb, <<>>, command_in.sender),
            TcpCommand(InfoVerb, <<>>, command_in.sender) >>
    ELSE << TcpCommand(DeviceInfoVerb, SocketInfo, command_in.sender) >>

\* the commands the Analyzer of h enqueues for command_in, in order
Responses(h, command_in) ==
  IF command_in.command # DispatchVerb(h) THEN <<>>
  ELSE IF h = "home"
    THEN << TcpCommand(OkVerb, <<>>, command_in.sender),
            TcpCommand(InfoVerb, <<>>, command_in.sender) >>
    ELSE << TcpCommand(DeviceInfoVerb, SocketInfo, command_in.sender) >>

\* while let Some(command_in) = commands_in.lock().unwrap().pop_back()
AnalyzerPop(h) ==
  /\ Present(h)
  /\ anPC[h] = "idle"
  /\ IF inPoison[h]
       THEN /\ anPC' = [anPC EXCEPT ![h] = "panicked"]
            /\ UNCHANGED <<anCmd, commandsIn, inPopped>>
       ELSE /\ commandsIn[h] # <<>>
            /\ LET command_in == PopBack(commandsIn[h]).value IN
                 /\ commandsIn' = [commandsIn EXCEPT ![h] = PopBack(@).rest]
                 /\ inPopped' = [inPopped EXCEPT ![h] = Append(@, command_in)]
                 /\ IF Responses(h, command_in) = <<>>
                      THEN UNCHANGED <<anPC, anCmd>>
                      ELSE /\ anPC' = [anPC EXCEPT ![h] = "push1"]
                           /\ anCmd' = [anCmd EXCEPT ![h] = command_in]
  /\ UNCHANGED <<codecVars, crudVars, deployment, netVars, accVars, rdVars, registry, poisonVars,
                 commandsOut, sdVars, tryVars, appVars, inPushed, outPushed, outPopped>>

\* One commands_out.lock().unwrap().push_front(x) of the Analyzer, made while it
\* holds the guard of commands_in; last tells whether the body ends with it.
AnalyzerPushOut(h, x, last) ==
  /\ OutFree(h)
  /\ IF outPoison[h]
       THEN /\ anPC' = [anPC EXCEPT ![h] = "panicked"]
            /\ inPoison' = [inPoison EXCEPT ![h] = TRUE]
            /\ anCmd' = anCmd
            /\ UNCHANGED <<commandsOut, outPushed>>
       ELSE /\ commandsOut' = [commandsOut EXCEPT ![h] = PushFront(@, x)]
            /\ outPushed' = [outPushed EXCEPT ![h] = Append(@, x)]
            /\ anPC' = [anPC EXCEPT ![h] = IF last THEN "idle" ELSE "push2"]
            /\ anCmd' = [anCmd EXCEPT ![h] = IF last THEN NoCmd ELSE @]
            /\ inPoison' = inPoison

\* home: the push_front of OK.  socket: socket.lock().unwrap().info().
AnalyzerFirst(h) ==
  /\ anPC[h] = "push1"
  /\ IF h = "home"
       THEN /\ AnalyzerPushOut(h, Responses(h, anCmd[h])[1], FALSE)
            /\ devPoison' = devPoison
       ELSE /\ ~DevHeld
            /\ IF devPoison
                 THEN /\ anPC' = [anPC EXCEPT ![h] = "panicked"]
                      /\ inPoison' = [inPoison EXCEPT ![h] = TRUE]
                 ELSE /\ anPC' = [anPC EXCEPT ![h] = "push2"]
                      /\ inPoison' = inPoison
            /\ UNCHANGED <<anCmd, commandsOut, outPushed, devPoison>>
  /\ UNCHANGED <<codecVars, crudVars, deployment, netVars, accVars, rdVars, registry, regPoison, outPoison,
                 commandsIn, sdVars, tryVars, appVars, inPushed, inPopped, outPopped>>

\* home: the push_front of info.  socket: the push_front of device_info.
AnalyzerSecond(h) ==
  /\ anPC[h] = "push2"
  /\ AnalyzerPushOut(h, Responses(h, anCmd[h])[Len(Responses(h, anCmd[h]))], TRUE)
  /\ UNCHANGED <<codecVars, crudVars, deployment, netVars, accVars, rdVars, registry, regPoison, outPoison,
                 devPoison, commandsIn, sdVars, tryVars, appVars, inPushed, inPopped,
                 outPopped>>

\* ------------------------------------------------------------- Sender
\* while let Some(command_out) = commands_out.lock().unwrap().pop_back()
SenderPop(h) ==
  /\ Present(h)
  /\ sdPC[h] = "idle"
  /\ IF outPoison[h]
       THEN /\ sdPC' = [sdPC EXCEPT ![h] = "panicked"]
            /\ UNCHANGED <<sdCmd, commandsOut, outPopped>>
       ELSE /\ commandsOut[h] # <<>>
            /\ sdCmd' = [sdCmd EXCEPT ![h] = PopBack(commandsOut[h]).value]
            /\ commandsOut' = [commandsOut EXCEPT ![h] = PopBack(@).rest]
            /\ outPopped' = [outPopped EXCEPT ![h] = Append(@, PopBack(commandsOut[h]).value)]
            /\ sdPC' = [sdPC EXCEPT ![h] = "popped"]
  /\ UNCHANGED <<codecVars, crudVars, deployment, netVars, accVars, rdVars, registry, poisonVars,
                 commandsIn, anVars, tryVars, appVars, inPushed, inPopped, outPushed>>

\* tcp_clients.lock(); clients.as_mut().unwrap().get_mut(sender).unwrap()
SenderResolve(h) ==
  /\ sdPC[h] = "popped"
  /\ RegFree(h)
  /\ IF regPoison[h]
       THEN /\ sdPC' = [sdPC EXCEPT ![h] = "panicked"]
            /\ outPoison' = [outPoison EXCEPT ![h] = TRUE]
            /\ regPoison' = regPoison
       ELSE IF ~ContainsKey(registry[h], sdCmd[h].sender)
         THEN /\ sdPC' = [sdPC EXCEPT ![h] = "panicked"]
              /\ outPoison' = [outPoison EXCEPT ![h] = TRUE]
              /\ regPoison' = [regPoison EXCEPT ![h] = TRUE]
         ELSE /\ sdPC' = [sdPC EXCEPT ![h] = "send"]
              /\ UNCHANGED <<outPoison, regPoison>>
  /\ UNCHANGED <<codecVars, crudVars, deployment, netVars, accVars, rdVars, registry, inPoison, devPoison,
                 queueVars, anVars, sdCmd, tryVars, appVars, logVars>>

\* the outcomes write_all can have on the stream of value v of the registry
WriteOutcomes(v) ==
  IF v = AppStream THEN {"ok"}
  ELSE IF peerState[v] = "reset" THEN {"error"}
  ELSE IF peerState[v] = "closed" THEN {"ok", "error"}
  ELSE {"ok"}

\* send_string(command_out.to_string(), &mut connection.stream).unwrap()
SenderWrite(h) ==
  LET v == registry[h][sdCmd[h].sender] IN
  /\ sdPC[h] = "send"
  /\ \E out \in WriteOutcomes(v) :
       IF out = "ok"
         THEN /\ h2c' = IF v \in Conns
                          THEN [h2c EXCEPT ![v] = Append(@, to_string(sdCmd[h]))]
                          ELSE h2c
              /\ sdPC' = [sdPC EXCEPT ![h] = "idle"]
              /\ UNCHANGED <<outPoison, regPoison>>
         ELSE /\ sdPC' = [sdPC EXCEPT ![h] = "panicked"]
              /\ outPoison' = [outPoison EXCEPT ![h] = TRUE]
              /\ regPoison' = [regPoison EXCEPT ![h] = TRUE]
              /\ h2c' = h2c
  /\ sdCmd' = [sdCmd EXCEPT ![h] = NoCmd]
  /\ UNCHANGED <<codecVars, crudVars, deployment, connKind, connHost, peerState, hostSide, c2h, framesSent,
                 backlog, accVars, rdVars, registry, inPoison, devPoison, queueVars,
                 anVars, tryVars, appVars, logVars>>


\* ------------------------------------------------------------- application
\* save_tcp_client(connection, name): contains_key, then insert or Err
SaveOutcome(reg, poisoned, name) ==
  IF poisoned THEN "panic"
  ELSE IF ContainsKey(reg, name) THEN "err" ELSE "ok"

\* The application stores a connection of its own under name.
AppSave(h, name) ==
  /\ Reachable(h)
  /\ saves < MaxSaves
  /\ h = "socket" => (~DevHeld /\ ~devPoison)
  /\ RegFree(h)
  /\ saves' = saves + 1
  /\ appPushes' = appPushes
  /\ registry' = IF SaveOutcome(registry[h], regPoison[h], name) = "ok"
                   THEN [registry EXCEPT ![h] = Insert(@, name, AppStream)]
                   ELSE registry
  /\ UNCHANGED <<codecVars, crudVars, deployment, netVars, accVars, rdVars, poisonVars, queueVars, anVars,
                 sdVars, tryVars, logVars>>

\* commands the application can build
AppCommands ==
  { TcpCommand(v, <<"x">>, k) : v \in {RegisterVerb, InfoVerb}, k \in SaveNames }

\* The application writes a command on the inbound queue it shares with the
\* request handler (the pub field commands).
AppPush(h, cmd) ==
  /\ Reachable(h)
  /\ appPushes < MaxAppPushes
  /\ InFree(h)
  /\ ~inPoison[h]
  /\ appPushes' = appPushes + 1
  /\ commandsIn' = [commandsIn EXCEPT ![h] = PushFront(@, cmd)]
  /\ inPushed' = [inPushed EXCEPT ![h] = Append(@, cmd)]
  /\ UNCHANGED <<codecVars, crudVars, deployment, netVars, accVars, rdVars, registry, poisonVars,
                 commandsOut, anVars, sdVars, tryVars, saves, inPopped, outPushed,
                 outPopped>>

\* ------------------------------------------------------------- try_register
\* Socket::try_register up to the blocking read: TcpStream::connect(HOME_PORT),
\* send_string("[register: [<name>]]").
TryStart ==
  /\ tryPC \in {"idle", "registered", "rejected"}
  /\ tryCount < MaxTry
  /\ CanConnect
  /\ LET c == NextConn IN
       /\ tryConn' = c
       /\ connKind' = [connKind EXCEPT ![c] = "try"]
       /\ peerState' = [peerState EXCEPT ![c] = "open"]
       /\ c2h' = [c2h EXCEPT ![c] = <<RegisterText(SocketName)>>]
       /\ IF deployment = "composed"
            THEN /\ connHost' = [connHost EXCEPT ![c] = "home"]
                 /\ hostSide' = [hostSide EXCEPT ![c] = "backlog"]
                 /\ backlog' = [backlog EXCEPT !["home"] = Append(@, c)]
            ELSE /\ connHost' = [connHost EXCEPT ![c] = "stub"]
                 /\ hostSide' = [hostSide EXCEPT ![c] = "open"]
                 /\ backlog' = backlog
  /\ tryPC' = "await"
  /\ tryCount' = tryCount + 1
  /\ tryReply' = NoReply
  /\ UNCHANGED <<codecVars, crudVars, deployment, h2c, framesSent, accVars, rdVars, registry, poisonVars,
                 queueVars, anVars, sdVars, appVars, logVars>>

\* what recv_string(&mut stream) does now: "blocked", "error" or "frame"
TryRecvOutcome(c) ==
  IF h2c[c] # <<>> THEN "frame"
  ELSE IF hostSide[c] = "dropped" THEN "error"
  ELSE "blocked"

\* result != "[OK: []]"
Accepts(result) == result = OkText

\* Socket::try_register from the blocking read on: recv_string().unwrap(), the
\* comparison, save_tcp_client(.., "home").unwrap().  The stream is dropped
\* unless it is stored.
TryReceive ==
  LET c == tryConn IN
  /\ tryPC = "await"
  /\ TryRecvOutcome(c) # "blocked"
  /\ tryReply' = IF TryRecvOutcome(c) = "frame" THEN h2c[c][1] ELSE NoReply
  /\ IF TryRecvOutcome(c) = "error"
       THEN /\ tryPC' = "panicked"
            /\ devPoison' = TRUE
            /\ peerState' = [peerState EXCEPT ![c] = "closed"]
            /\ registry' = registry
       ELSE IF ~Accepts(h2c[c][1])
         THEN /\ tryPC' = "rejected"
              /\ peerState' = [peerState EXCEPT ![c] = "closed"]
              /\ UNCHANGED <<devPoison, registry>>
         ELSE /\ RegFree("socket")
              /\ IF SaveOutcome(registry["socket"], regPoison["socket"], HomeKey) = "ok"
                   THEN /\ registry' = [registry EXCEPT !["socket"] = Insert(@, HomeKey, c)]
                        /\ tryPC' = "registered"
                        /\ UNCHANGED <<devPoison, peerState>>
                   ELSE /\ tryPC' = "panicked"
                        /\ devPoison' = TRUE
                        /\ peerState' = [peerState EXCEPT ![c] = "closed"]
                        /\ registry' = registry
  /\ UNCHANGED <<codecVars, crudVars, deployment, connKind, connHost, hostSide, c2h, h2c, framesSent,
                 backlog, accVars, rdVars, regPoison, inPoison, outPoison, queueVars,
                 anVars, sdVars, tryConn, tryCount, appVars, logVars>>

\* ------------------------------------------------------------- foreign coordinator
\* The process on HOME_PORT writes a frame on the registration connection.
StubReply(c, t) ==
  /\ connHost[c] = "stub"
  /\ hostSide[c] = "open"
  /\ peerState[c] = "open"
  /\ Len(h2c[c]) < MaxFrames
  /\ h2c' = [h2c EXCEPT ![c] = Append(@, t)]
  /\ UNCHANGED <<codecVars, crudVars, deployment, connKind, connHost, peerState, hostSide, c2h, framesSent,
                 backlog, accVars, rdVars, registry, poisonVars, queueVars, anVars,
                 sdVars, tryVars, appVars, logVars>>

\* The process on HOME_PORT closes the registration connection.
StubClose(c) ==
  /\ connHost[c] = "stub"
  /\ hostSide[c] = "open"
  /\ hostSide' = [hostSide EXCEPT ![c] = "dropped"]
  /\ UNCHANGED <<codecVars, crudVars, deployment, connKind, connHost, peerState, c2h, h2c, framesSent,
                 backlog, accVars, rdVars, registry, poisonVars, queueVars, anVars,
                 sdVars, tryVars, appVars, logVars>>

\* ------------------------------------------------------------- codec
\* A byte sequence is a sequence of runs [b |-> byte, n |-> count], n >= 1; a
\* text is a sequence of runs [c |-> code point, n |-> count].  A run longer
\* than one holds the ASCII letter a only.  Lengths are usize values kept as
\* [big |-> q, small |-> r] for q * 2^30 + r with r < 2^30.
U32Quarter == 2^30

Byte(b) == [b |-> b, n |-> 1]
Char(c) == [c |-> c, n |-> 1]

\* usize addition and subtraction of a run length n <= 2^30
AddLen(len, n) ==
  IF len.small + n >= U32Quarter
    THEN [big |-> len.big + 1, small |-> len.small + n - U32Quarter]
    ELSE [big |-> len.big, small |-> len.small + n]

SubLen(len, n) ==
  IF len.small >= n
    THEN [big |-> len.big, small |-> len.small - n]
    ELSE [big |-> len.big - 1, small |-> len.small + U32Quarter - n]

ZeroLen == [big |-> 0, small |-> 0]

\* [u8]::len
RECURSIVE BytesLen(_)
BytesLen(bytes) ==
  IF bytes = <<>> THEN ZeroLen ELSE AddLen(BytesLen(Tail(bytes)), Head(bytes).n)

\* char::encode_utf8
EncodeUtf8(c) ==
  IF c < 128 THEN << Byte(c) >>
  ELSE IF c < 2048 THEN << Byte(192 + (c \div 64)), Byte(128 + (c % 64)) >>
  ELSE IF c < 65536
    THEN << Byte(224 + (c \div 4096)), Byte(128 + ((c \div 64) % 64)),
            Byte(128 + (c % 64)) >>
    ELSE << Byte(240 + (c \div 262144)), Byte(128 + ((c \div 4096) % 64)),
            Byte(128 + ((c \div 64) % 64)), Byte(128 + (c % 64)) >>

\* str::as_bytes
RECURSIVE as_bytes(_)
as_bytes(text) ==
  IF text = <<>> THEN <<>>
  ELSE (IF Head(text).n > 1 THEN << [b |-> Head(text).c, n |-> Head(text).n] >>
        ELSE EncodeUtf8(Head(text).c)) \o as_bytes(Tail(text))

\* mutation of AsU32: the length is cut to 16 bits
AsU16(len) == [big |-> 0, small |-> len.small % 65536]

\* len as u32: the low 32 bits of a usize
AsU32(len) == [big |-> len.big % 4, small |-> len.small]

\* u32::to_be_bytes
to_be_bytes(len) ==
  << Byte((len.big * 64) + (len.small \div 16777216)), Byte((len.small \div 65536) % 256),
     Byte((len.small \div 256) % 256), Byte(len.small % 256) >>

\* u32::from_be_bytes
from_be_bytes(buf) ==
  [big |-> buf[1].b \div 64,
   small |-> ((buf[1].b % 64) * 16777216) + (buf[2].b * 65536) + (buf[3].b * 256) + buf[4].b]

\* Write::write_all on a writer that accepts every byte
write_all(writer, bytes) == writer \o bytes

\* send_string with the number of characters as the prefix
send_string_chars(data, writer) ==
  write_all(write_all(writer, to_be_bytes([big |-> 0, small |-> Len(data)])), as_bytes(data))

\* send_string(data, writer): the writer afterwards
send_string(data, writer) ==
  LET bytes == as_bytes(data)
      len == AsU32(BytesLen(bytes))
      len_bytes == to_be_bytes(len)
  IN  write_all(write_all(writer, len_bytes), bytes)

\* Read::read_exact of len bytes: the buffer filled and the reader left, or
\* UnexpectedEof after the reader was read to its end
RECURSIVE read_exact(_, _)
read_exact(reader, len) ==
  IF len = ZeroLen THEN [ok |-> TRUE, buf |-> <<>>, rest |-> reader]
  ELSE IF reader = <<>> THEN [ok |-> FALSE, buf |-> <<>>, rest |-> <<>>]
  ELSE LET h == Head(reader) IN
    IF len.big > 0 \/ len.small >= h.n
      THEN LET r == read_exact(Tail(reader), SubLen(len, h.n)) IN
           [ok |-> r.ok, buf |-> IF r.ok THEN <<h>> \o r.buf ELSE <<>>, rest |-> r.rest]
      ELSE [ok |-> TRUE, buf |-> << [b |-> h.b, n |-> len.small] >>,
            rest |-> << [b |-> h.b, n |-> h.n - len.small] >> \o Tail(reader)]

\* the i-th byte of a byte sequence, or -1 past its end
RECURSIVE ByteAt(_, _)
ByteAt(bytes, i) ==
  IF bytes = <<>> THEN -1
  ELSE IF i <= Head(bytes).n THEN Head(bytes).b
  ELSE ByteAt(Tail(bytes), i - Head(bytes).n)

IsContinuation(b) == b >= 128 /\ b <= 191

\* the width of the well-formed UTF-8 sequence that starts with bytes b1 b2
\* (0 if there is none): no overlong form, no surrogate, nothing above U+10FFFF
Utf8Width(b1, b2) ==
  IF b1 >= 194 /\ b1 <= 223 THEN (IF IsContinuation(b2) THEN 2 ELSE 0)
  ELSE IF b1 = 224 THEN (IF b2 >= 160 /\ b2 <= 191 THEN 3 ELSE 0)
  ELSE IF b1 = 237 THEN (IF b2 >= 128 /\ b2 <= 159 THEN 3 ELSE 0)
  ELSE IF b1 >= 225 /\ b1 <= 239 THEN (IF IsContinuation(b2) THEN 3 ELSE 0)
  ELSE IF b1 = 240 THEN (IF b2 >= 144 /\ b2 <= 191 THEN 4 ELSE 0)
  ELSE IF b1 = 244 THEN (IF b2 >= 128 /\ b2 <= 143 THEN 4 ELSE 0)
  ELSE IF b1 >= 241 /\ b1 <= 243 THEN (IF IsContinuation(b2) THEN 4 ELSE 0)
  ELSE 0

\* mutation of from_utf8: from_utf8_lossy, every invalid byte becomes U+FFFD
RECURSIVE from_utf8_lossy(_)
from_utf8_lossy(bytes) ==
  IF bytes = <<>> THEN [ok |-> TRUE, text |-> <<>>]
  ELSE LET h == Head(bytes) IN
    [ok |-> TRUE,
     text |-> << [c |-> IF h.b < 128 THEN h.b ELSE 65533, n |-> h.n] >>
                \o from_utf8_lossy(Tail(bytes)).text]

\* String::from_utf8: the text, or an error if the bytes are not valid UTF-8
RECURSIVE from_utf8(_)
from_utf8(bytes) ==
  IF bytes = <<>> THEN [ok |-> TRUE, text |-> <<>>]
  ELSE LET h == Head(bytes) IN
    IF h.b < 128
      THEN LET r == from_utf8(Tail(bytes)) IN
           [ok |-> r.ok, text |-> IF r.ok THEN << [c |-> h.b, n |-> h.n] >> \o r.text ELSE <<>>]
      ELSE LET w == Utf8Width(h.b, ByteAt(bytes, 2))
               b2 == ByteAt(bytes, 2)
               b3 == ByteAt(bytes, 3)
               b4 == ByteAt(bytes, 4)
           IN
        IF w = 0 \/ (w >= 3 /\ ~IsContinuation(b3)) \/ (w = 4 /\ ~IsContinuation(b4))
          THEN [ok |-> FALSE, text |-> <<>>]
          ELSE LET c == IF w = 2 THEN ((h.b - 192) * 64) + (b2 - 128)
                        ELSE IF w = 3
                          THEN ((h.b - 224) * 4096) + ((b2 - 128) * 64) + (b3 - 128)
                          ELSE ((h.b - 240) * 262144) + ((b2 - 128) * 4096)
                                 + ((b3 - 128) * 64) + (b4 - 128)
                   r == from_utf8(read_exact(bytes, [big |-> 0, small |-> w]).rest)
               IN  [ok |-> r.ok, text |-> IF r.ok THEN << Char(c) >> \o r.text ELSE <<>>]

\* mutation of recv_string: a frame of length 0 is taken for the end of the stream
recv_string_nonempty(reader) ==
  LET head == read_exact(reader, [big |-> 0, small |-> 4]) IN
  IF ~head.ok \/ from_be_bytes(<< Byte(ByteAt(head.buf, 1)), Byte(ByteAt(head.buf, 2)),
                                  Byte(ByteAt(head.buf, 3)), Byte(ByteAt(head.buf, 4)) >>)
                   = ZeroLen
    THEN [ok |-> FALSE, text |-> <<>>, rest |-> head.rest]
    ELSE LET len == from_be_bytes(<< Byte(ByteAt(head.buf, 1)), Byte(ByteAt(head.buf, 2)),
                                     Byte(ByteAt(head.buf, 3)), Byte(ByteAt(head.buf, 4)) >>)
             body == read_exact(head.rest, len)
         IN  IF ~body.ok THEN [ok |-> FALSE, text |-> <<>>, rest |-> body.rest]
             ELSE [ok |-> from_utf8(body.buf).ok, text |-> from_utf8(body.buf).text,
                   rest |-> body.rest]

\* recv_string(reader): Ok(text) or Err, and the reader afterwards
recv_string(reader) ==
  LET head == read_exact(reader, [big |-> 0, small |-> 4]) IN
  IF ~head.ok THEN [ok |-> FALSE, text |-> <<>>, rest |-> head.rest]
  ELSE LET len == from_be_bytes(<< Byte(ByteAt(head.buf, 1)), Byte(ByteAt(head.buf, 2)),
                                   Byte(ByteAt(head.buf, 3)), Byte(ByteAt(head.buf, 4)) >>)
           body == read_exact(head.rest, len)
       IN  IF ~body.ok THEN [ok |-> FALSE, text |-> <<>>, rest |-> body.rest]
           ELSE [ok |-> from_utf8(body.buf).ok, text |-> from_utf8(body.buf).text,
                 rest |-> body.rest]

\* the characters of the texts sent: [ a e-acute euro-sign grinning-face
CodePoints == {91, 97, 233, 8364, 128512}

ShortTexts == UNION { [1..n -> {Char(c) : c \in CodePoints}] : n \in 0..MaxTextLen }

\* 2^30 letters a
Block == [c |-> 97, n |-> U32Quarter]

LongTexts ==
  { [i \in 1..k |-> Block] \o t : k \in 1..MaxBlocks, t \in {u \in ShortTexts : Len(u) <= 1} }

Texts == ShortTexts \cup LongTexts

Bytes(seq) == [i \in 1..Len(seq) |-> Byte(seq[i])]

\* payloads that are not valid UTF-8: a byte that never occurs, a cut sequence,
\* an overlong form, a surrogate, a lone continuation byte, above U+10FFFF
InvalidPayloads ==
  { Bytes(<<255>>), Bytes(<<195>>), Bytes(<<192, 128>>), Bytes(<<237, 160, 128>>),
    Bytes(<<128>>), Bytes(<<244, 144, 128, 128>>), Bytes(<<97, 226, 130>>) }

\* byte streams a peer can produce without send_string
RawStreams ==
  { Bytes(<<0, 0>>),
    Bytes(<<0, 0, 0, 2, 97>>),
    Bytes(<<0, 0, 0, 0>>),
    Bytes(<<0, 0, 0, 0, 0, 0, 0, 1, 97>>),
    Bytes(<<0, 0, 0, 2, 195, 169, 0, 0>>),
    Bytes(<<64, 0, 0, 0>>) \o << [b |-> 97, n |-> U32Quarter] >>,
    Bytes(<<64, 0, 0, 1>>) \o << [b |-> 97, n |-> U32Quarter] >> }
  \cup { to_be_bytes(BytesLen(p)) \o p : p \in InvalidPayloads }
  \cup { to_be_bytes(BytesLen(p)) \o p \o Bytes(<<0, 0, 0, 1, 97>>) : p \in InvalidPayloads }

\* send_string(data, &mut stream)
SendString(data) ==
  /\ Len(sent) < MaxSends
  /\ ~injected
  /\ wire' = send_string(data, wire)
  /\ sent' = Append(sent, data)
  /\ UNCHANGED <<injected, received, crudVars, deployment, netVars, accVars, rdVars, registry,
                 poisonVars, queueVars, anVars, sdVars, tryVars, appVars, logVars>>

\* A peer writes bytes of its own on the stream and closes it.
Inject(raw) ==
  /\ ~injected
  /\ sent = <<>>
  /\ wire = <<>>
  /\ wire' = raw
  /\ injected' = TRUE
  /\ UNCHANGED <<sent, received, crudVars, deployment, netVars, accVars, rdVars, registry,
                 poisonVars, queueVars, anVars, sdVars, tryVars, appVars, logVars>>

\* recv_string(&mut stream) on a stream that holds wire and then ends
RecvString ==
  /\ Len(received) < MaxRecvs
  /\ LET r == recv_string(wire) IN
       /\ wire' = r.rest
       /\ received' = Append(received,
                             [before |-> wire, sends |-> Len(sent), ok |-> r.ok,
                              text |-> r.text, rest |-> r.rest])
  /\ UNCHANGED <<sent, injected, crudVars, deployment, netVars, accVars, rdVars, registry,
                 poisonVars, queueVars, anVars, sdVars, tryVars, appVars, logVars>>

NextCodec ==
  \/ \E data \in Texts : SendString(data)
  \/ \E raw \in RawStreams : Inject(raw)
  \/ RecvString

SpecCodec == Init /\ [][NextCodec]_vars

\* ------------------------------------------------------------- rooms and devices
\* Home keeps two stores behind two services: StoreDevices (a Vec of devices)
\* and StoreDeviceLinks (a HashMap from an entity name to the names it holds:
\* the root HOME holds the rooms, a room its devices, a device the devices
\* connected to it).  A device is the pair of its name() and its info().

relayVars == <<deployment, netVars, accVars, rdVars, registry, poisonVars, queueVars,
               anVars, sdVars, tryVars, appVars, logVars>>

\* slice.contains(x)
Contains(seq, x) == \E i \in 1..Len(seq) : seq[i] = x

\* iter().position(|e| e == x): the first index, 0 for None
Position(seq, x) ==
  IF Contains(seq, x)
    THEN CHOOSE i \in 1..Len(seq) : seq[i] = x /\ \A j \in 1..(i - 1) : seq[j] # x
    ELSE 0

\* Vec::remove(index)
VecRemove(seq, i) == SubSeq(seq, 1, i - 1) \o SubSeq(seq, i + 1, Len(seq))

\* HashMap::remove(k)
MapRemove(map, k) == [x \in DOMAIN map \ {k} |-> map[x]]

\* StoreDeviceLinks::contains_room
contains_room(l, room_name) == room_name \in DOMAIN l

\* StoreDeviceLinks::entities
entities(l, name) == IF name \in DOMAIN l THEN l[name] ELSE <<>>

\* StoreDeviceLinks::add_room
StoreDeviceLinks_add_room(l, room_name) ==
  IF HOME_NAME \notin DOMAIN l
    THEN [res |-> "panic", links |-> l]
    ELSE [res |-> "ok",
          links |-> Insert([l EXCEPT ![HOME_NAME] = Append(@, room_name)], room_name, <<>>)]

\* StoreDeviceLinks::remove_room
StoreDeviceLinks_remove_room(l, room_name) ==
  IF HOME_NAME \notin DOMAIN l
    THEN [res |-> "panic", links |-> l]
    ELSE IF Position(l[HOME_NAME], room_name) = 0
      THEN [res |-> "err", links |-> l]
      ELSE [res |-> "ok",
            links |-> MapRemove([l EXCEPT ![HOME_NAME] =
                                   VecRemove(@, Position(@, room_name))], room_name)]

\* StoreDeviceLinks::contains_device_in_room, which ServiceSchemaDevices calls
\* as contains_device(room, device)
contains_device_in_room(l, room_name, device_name) ==
  LET contains_in_room == room_name \in DOMAIN l /\ Contains(l[room_name], device_name)
      contains_in_list == device_name \in DOMAIN l
  IN  contains_in_list /\ contains_in_room

\* StoreDeviceLinks::add_device
StoreDeviceLinks_add_device(l, room_name, device_name) ==
  IF room_name \notin DOMAIN l
    THEN [res |-> "panic", links |-> l]
    ELSE [res |-> "ok",
          links |-> Insert([l EXCEPT ![room_name] = Append(@, device_name)], device_name, <<>>)]

\* StoreDeviceLinks::remove_device: every outcome the iteration order of the
\* HashMap allows.  The key goes; then the first list met that holds the name
\* loses its first occurrence, and the loop returns.
StoreDeviceLinks_remove_device(l, device_name) ==
  IF device_name \notin DOMAIN l
    THEN { [res |-> "err", links |-> l] }
    ELSE LET removed == MapRemove(l, device_name)
             holders == {k \in DOMAIN removed : Contains(removed[k], device_name)}
         IN  IF holders = {}
               THEN { [res |-> "ok", links |-> removed] }
               ELSE { [res |-> "ok",
                       links |-> [removed EXCEPT ![k] = VecRemove(@, Position(@, device_name))]]
                      : k \in holders }

\* ServiceSchemaDevices::add_room
ServiceSchemaDevices_add_room(l, room_name) ==
  IF contains_room(l, room_name)
    THEN [res |-> "err", links |-> l]
    ELSE StoreDeviceLinks_add_room(l, room_name)

\* ServiceSchemaDevices::remove_room hands the call to the store
ServiceSchemaDevices_remove_room(l, room_name) == StoreDeviceLinks_remove_room(l, room_name)

\* ServiceSchemaDevices::rooms: the names the root holds
rooms(l) == entities(l, HOME_NAME)

\* ServiceSchemaDevices::room_devices
room_devices(l, room_name) == entities(l, room_name)

\* ServiceSchemaDevices::add_device
ServiceSchemaDevices_add_device(l, room_name, device_name) ==
  IF ~contains_room(l, room_name)
    THEN [res |-> "err", links |-> l]
    ELSE IF contains_device_in_room(l, room_name, device_name)
      THEN [res |-> "err", links |-> l]
      ELSE StoreDeviceLinks_add_device(l, room_name, device_name)

\* StoreDeviceLinks::connect_device
StoreDeviceLinks_connect_device(l, device_name_to, device_name_from) ==
  IF device_name_to \notin DOMAIN l
    THEN [res |-> "panic", links |-> l]
    ELSE IF Contains(l[device_name_to], device_name_from)
      THEN [res |-> "panic", links |-> l]
      ELSE [res |-> "ok", links |-> [l EXCEPT ![device_name_to] = Append(@, device_name_from)]]

\* ServiceSchemaDevices::connect_device
ServiceSchemaDevices_connect_device(l, room_name, device_connects_to, device_connected) ==
  IF ~contains_device_in_room(l, room_name, device_connected)
    THEN [res |-> "err", links |-> l]
    ELSE IF ~contains_device_in_room(l, room_name, device_connects_to)
      THEN [res |-> "err", links |-> l]
      ELSE StoreDeviceLinks_connect_device(l, device_connects_to, device_connected)

\* ServiceSchemaDevices::remove_device hands the call to the store
ServiceSchemaDevices_remove_device(l, device_name) == StoreDeviceLinks_remove_device(l, device_name)

\* StoreDevices::contains
StoreDevices_contains(devs, device) ==
  \E i \in 1..Len(devs) : devs[i].name = device.name /\ devs[i].info = device.info

\* ServiceDevices::add_device
ServiceDevices_add_device(devs, device) ==
  IF StoreDevices_contains(devs, device)
    THEN [res |-> "err", devices |-> devs]
    ELSE [res |-> "ok", devices |-> Append(devs, device)]

\* StoreDevices::remove_device
StoreDevices_remove_device(devs, device_name) ==
  LET names == [i \in 1..Len(devs) |-> devs[i].name] IN
    IF Position(names, device_name) = 0
      THEN [res |-> "err", devices |-> devs]
      ELSE [res |-> "ok", devices |-> VecRemove(devs, Position(names, device_name))]

\* ServiceDevices::remove_device hands the call to the store
ServiceDevices_remove_device(devs, device_name) == StoreDevices_remove_device(devs, device_name)

\* a call can be made on the Home: no call has panicked
CanCall == lastRes # "panic"

\* a call of op has returned res
Called(op, res) ==
  /\ callFlip' = ~callFlip
  /\ lastRes' = res
  /\ roomCallsOnly' = (roomCallsOnly /\ op \in {"add_room", "remove_room"})

\* Home::add_room(room)
AddRoom(room) ==
  /\ CanCall
  /\ Len(rooms(links)) < MaxHeld
  /\ LET r == ServiceSchemaDevices_add_room(links, room) IN
       /\ links' = r.links
       /\ Called("add_room", r.res)
  /\ UNCHANGED <<devices, addedOk, relayVars, codecVars>>

\* Home::remove_room(room_name)
RemoveRoom(room) ==
  /\ CanCall
  /\ LET r == ServiceSchemaDevices_remove_room(links, room) IN
       /\ links' = r.links
       /\ Called("remove_room", r.res)
  /\ UNCHANGED <<devices, addedOk, relayVars, codecVars>>

\* Home::add_device(room, device): the device store first, then the schema;
\* the ? operator returns at the first Err
AddDevice(room, device) ==
  /\ CanCall
  /\ Len(devices) < MaxDevices
  /\ Len(room_devices(links, room)) < MaxHeld
  /\ LET r1 == ServiceDevices_add_device(devices, device) IN
       IF r1.res = "err"
         THEN /\ Called("add_device", "err")
              /\ UNCHANGED <<links, devices, addedOk>>
         ELSE LET r2 == ServiceSchemaDevices_add_device(links, room, device.name) IN
                /\ devices' = r1.devices
                /\ links' = r2.links
                /\ Called("add_device", r2.res)
                /\ addedOk' = IF r2.res = "ok" THEN addedOk \cup {device.name} ELSE addedOk
  /\ UNCHANGED <<relayVars, codecVars>>

\* Home::remove_device(device_name): the schema first, then the device store
RemoveDevice(name) ==
  /\ CanCall
  /\ \E r1 \in ServiceSchemaDevices_remove_device(links, name) :
       IF r1.res = "err"
         THEN /\ Called("remove_device", "err")
              /\ UNCHANGED <<links, devices, addedOk>>
         ELSE LET r2 == ServiceDevices_remove_device(devices, name) IN
                /\ links' = r1.links
                /\ devices' = r2.devices
                /\ Called("remove_device", r2.res)
                /\ addedOk' = IF r2.res = "ok" THEN addedOk \ {name} ELSE addedOk
  /\ UNCHANGED <<relayVars, codecVars>>

\* Home::connect_device(room, to, from): unwrap() of the service's Result, then Ok(())
ConnectDevice(room, to, from) ==
  /\ CanCall
  /\ LET r == ServiceSchemaDevices_connect_device(links, room, to, from) IN
       /\ r.res = "ok" => Len(entities(links, to)) < MaxConnected
       /\ links' = r.links
       /\ Called("connect_device", IF r.res = "ok" THEN "ok" ELSE "panic")
  /\ UNCHANGED <<devices, addedOk, relayVars, codecVars>>

NextHome ==
  \/ \E room \in EntityNames : AddRoom(room)
  \/ \E room \in EntityNames : RemoveRoom(room)
  \/ \E room \in EntityNames, name \in EntityNames, info \in DeviceInfos :
       AddDevice(room, [name |-> name, info |-> info])
  \/ \E name \in EntityNames : RemoveDevice(name)

\* a Home right after Home::new
InitHome ==
  /\ deployment = "composed"
  /\ registry = [h \in Hosts |-> <<>>]
  /\ InitThreads

SpecHome == InitHome /\ [][NextHome]_vars

\* the calls of a Home whose devices all carry one description, connect_device included
NextHomeConnect ==
  \/ \E room \in EntityNames : AddRoom(room)
  \/ \E room \in EntityNames : RemoveRoom(room)
  \/ \E room \in EntityNames, name \in EntityNames :
       AddDevice(room, [name |-> name, info |-> "i1"])
  \/ \E name \in EntityNames : RemoveDevice(name)
  \/ \E room \in EntityNames, to \in EntityNames, from \in EntityNames :
       ConnectDevice(room, to, from)

SpecHomeConnect == InitHome /\ [][NextHomeConnect]_vars

\* ------------------------------------------------------------- specification
Next ==
  \/ \E h \in Hosts : PeerConnect(h)
  \/ \E c \in Conns, f \in PeerFrames : PeerSend(c, f)
  \/ \E c \in Conns : PeerClose(c)
  \/ \E c \in Conns : PeerReset(c)
  \/ \E h \in Hosts : AcceptOk(h)
  \/ \E h \in Hosts : AcceptErr(h)
  \/ \E c \in Conns : ReaderInsert(c)
  \/ \E c \in Conns : ReaderLock(c)
  \/ \E c \in Conns : ReaderReceive(c)
  \/ \E c \in Conns : ReaderPush(c)
  \/ \E h \in Hosts : AnalyzerPop(h)
  \/ \E h \in Hosts : AnalyzerFirst(h)
  \/ \E h \in Hosts : AnalyzerSecond(h)
  \/ \E h \in Hosts : SenderPop(h)
  \/ \E h \in Hosts : SenderResolve(h)
  \/ \E h \in Hosts : SenderWrite(h)
  \/ \E h \in Hosts, name \in SaveNames : AppSave(h, name)
  \/ TryStart
  \/ TryReceive
  \/ \E c \in Conns, t \in ReplyTexts : StubReply(c, t)
  \/ \E c \in Conns : StubClose(c)

Spec == Init /\ [][Next]_vars

\* The threads, each with the steps it takes on its own.
Acceptor(h) == AcceptOk(h)
Reader(c) == ReaderInsert(c) \/ ReaderLock(c) \/ ReaderReceive(c) \/ ReaderPush(c)
Analyzer(h) == AnalyzerPop(h) \/ AnalyzerFirst(h) \/ AnalyzerSecond(h)
Sender(h) == SenderPop(h) \/ SenderResolve(h) \/ SenderWrite(h)

\* Every thread that can take a step eventually takes one (OS scheduling).
Fairness ==
  /\ \A h \in Hosts : WF_vars(Acceptor(h))
  /\ \A c \in Conns : WF_vars(Reader(c))
  /\ \A h \in Hosts : WF_vars(Analyzer(h))
  /\ \A h \in Hosts : WF_vars(Sender(h))
  /\ WF_vars(TryReceive)

FairSpec == Spec /\ Fairness

\* The request handler of an entity (HomeRequestHandler, SocketRequestHandler)
\* over a registry and an inbound queue that the application fills.
NextHandler ==
  \/ \E h \in Hosts, name \in SaveNames : AppSave(h, name)
  \/ \E h \in Hosts, cmd \in AppCommands : AppPush(h, cmd)
  \/ \E h \in Hosts : AnalyzerPop(h)
  \/ \E h \in Hosts : AnalyzerFirst(h)
  \/ \E h \in Hosts : AnalyzerSecond(h)
  \/ \E h \in Hosts : SenderPop(h)
  \/ \E h \in Hosts : SenderResolve(h)
  \/ \E h \in Hosts : SenderWrite(h)

SpecHandler == Init /\ [][NextHandler]_vars

\* The coordinator started over a registry in which the application has stored,
\* with save_tcp_client before start_receive, a connection of its own under each
\* name of a set of peer addresses.
InitSeeded ==
  /\ deployment = "composed"
  /\ \E S \in SUBSET {PeerAddr(c) : c \in Conns} :
       registry = [h \in Hosts |-> IF h = "home" THEN [k \in S |-> AppStream] ELSE <<>>]
  /\ InitThreads

\* the coordinator's threads and the peers that connect to it
NextSeeded ==
  \/ \E h \in Hosts : PeerConnect(h)
  \/ \E c \in Conns, f \in PeerFrames : PeerSend(c, f)
  \/ \E c \in Conns : PeerClose(c)
  \/ \E c \in Conns : PeerReset(c)
  \/ \E h \in Hosts : AcceptOk(h)
  \/ \E c \in Conns : ReaderInsert(c)
  \/ \E c \in Conns : ReaderLock(c)
  \/ \E c \in Conns : ReaderReceive(c)
  \/ \E c \in Conns : ReaderPush(c)
  \/ \E h \in Hosts : AnalyzerPop(h)
  \/ \E h \in Hosts : AnalyzerFirst(h)
  \/ \E h \in Hosts : AnalyzerSecond(h)
  \/ \E h \in Hosts : SenderPop(h)
  \/ \E h \in Hosts : SenderResolve(h)
  \/ \E h \in Hosts : SenderWrite(h)

SpecSeeded == InitSeeded /\ [][NextSeeded]_vars

\* the guards of the threads' steps
AcceptorCanStep(h) == Present(h) /\ accPC[h] = "running" /\ backlog[h] # <<>>

ReaderCanStep(c) ==
  \/ rdPC[c] = "spawned" /\ (PeerAddrFails(c) \/ RegFree(connHost[c]))
  \/ rdPC[c] = "inserted" /\ RegFree(connHost[c])
  \/ rdPC[c] = "recv" /\ ReceiveOutcome(c) # "blocked"
  \/ rdPC[c] = "parsed" /\ (PeerAddrFails(c) \/ InFree(connHost[c]))

AnalyzerCanStep(h) ==
  /\ Present(h)
  /\ \/ anPC[h] = "idle" /\ (inPoison[h] \/ commandsIn[h] # <<>>)
     \/ anPC[h] = "push1" /\ (IF h = "home" THEN OutFree(h) ELSE ~DevHeld)
     \/ anPC[h] = "push2" /\ OutFree(h)

SenderCanStep(h) ==
  /\ Present(h)
  /\ \/ sdPC[h] = "idle" /\ (outPoison[h] \/ commandsOut[h] # <<>>)
     \/ sdPC[h] = "popped" /\ RegFree(h)
     \/ sdPC[h] = "send"


\* ------------------------------------------------------------- envelope
\* One peer of the coordinator writes frames of every shape: envelopes as
\* TcpCommand::to_string builds them, envelopes with text around them or with
\* other white space, and texts the Regex does not match.
EnvelopeVerbs == {InfoVerb, RegisterVerb, OkVerb, <<"_">>}
EnvelopeArgs == {<<"a","l","l">>, <<"d","e","v","0","1">>, <<"9">>}

Envelopes == {to_string(TcpCommand(v, a, "")) : v \in EnvelopeVerbs, a \in EnvelopeArgs}

NearEnvelopes ==
  LET e == to_string(TcpCommand(InfoVerb, <<"a","l","l">>, "")) IN
  { <<"x">> \o e, e \o <<"x">>, <<"[">> \o e, e \o e,
    <<"[">> \o InfoVerb \o <<":", "[", "a", "]", "]">>,
    <<"[">> \o InfoVerb \o <<":", "\t", "[", "a", "]", "]">>,
    <<"[">> \o InfoVerb \o <<":", " ", " ", "[", "a", "]", "]">>,
    to_string(TcpCommand(InfoVerb, <<>>, "")),
    to_string(TcpCommand(<<>>, <<"a","l","l">>, "")),
    to_string(TcpCommand(<<"i","n"," ","f","o">>, <<"a","l","l">>, "")),
    to_string(TcpCommand(InfoVerb, <<"a","-","l">>, "")),
    <<"[">> \o InfoVerb \o <<":", " ", "[", "a", "]">>,
    Garbage, <<>> }

EnvelopeFrames == Envelopes \cup NearEnvelopes

\* the application has saved the address the first peer will have
InitEnvelope ==
  /\ deployment = "composed"
  /\ registry = [h \in Hosts |-> IF h = "home" THEN [k \in {PeerAddr(1)} |-> AppStream]
                                  ELSE <<>>]
  /\ InitThreads

\* the first connection to the entity
FirstPeerConnect(h) ==
  /\ \A c \in Conns : peerState[c] = "idle"
  /\ PeerConnect(h)

NextEnvelope ==
  \/ \E h \in Hosts : FirstPeerConnect(h)
  \/ \E c \in Conns, f \in EnvelopeFrames : PeerSend(c, f)
  \/ \E h \in Hosts : AcceptOk(h)
  \/ \E c \in Conns : ReaderInsert(c)
  \/ \E c \in Conns : ReaderLock(c)
  \/ \E c \in Conns : ReaderReceive(c)
  \/ \E c \in Conns : ReaderPush(c)

SpecEnvelope == InitEnvelope /\ [][NextEnvelope]_vars

\* ------------------------------------------------------------- properties
IsPrefix(a, b) == Len(a) <= Len(b) /\ \A i \in 1..Len(a) : a[i] = b[i]

InfoText == to_string(TcpCommand(InfoVerb, <<>>, ""))

\* C1: the frames the coordinator's Sender has written to a peer are [OK: []],
\* [info: []], [OK: []], [info: []], ...: every [info: []] comes directly after
\* the [OK: []] of the same register command, never before it.
C1_OkBeforeInfo ==
  \A c \in Conns :
    connHost[c] = "home" =>
      \A i \in 1..Len(h2c[c]) :
        h2c[c][i] = (IF i % 2 = 1 THEN OkText ELSE InfoText)

\* a peer of the coordinator has been sent both answers to its register frame
C1_Witness ==
  \E c \in Conns :
    /\ connHost[c] = "home"
    /\ Len(h2c[c]) >= 2
    /\ h2c[c][1] = OkText /\ h2c[c][2] = InfoText

\* C4: the commands the Sender has popped from commands_out are, in order, the
\* first commands that were pushed on it.
C4_OutboundFifo == \A h \in Hosts : IsPrefix(outPopped[h], outPushed[h])

\* two different commands waited on commands_out together and both were popped
C4_Witness ==
  \E h \in Hosts :
    /\ Len(outPopped[h]) >= 2
    /\ outPopped[h][1] # outPopped[h][2]
    /\ Len(outPushed[h]) > Len(outPopped[h])

\* the commands of log pushed that are not in log popped yet, newest first
RECURSIVE Reverse(_)
Reverse(q) == IF q = <<>> THEN <<>> ELSE Append(Reverse(Tail(q)), Head(q))
Waiting(pushed, popped) == Reverse(SubSeq(pushed, Len(popped) + 1, Len(pushed)))

\* C5: the commands the Analyzer has popped from commands are, in order, the
\* first commands pushed on it, and both queues of both entities hold the
\* commands still waiting with the newest at the front and the oldest at the back.
C5_InboundFifo ==
  \A h \in Hosts :
    /\ IsPrefix(inPopped[h], inPushed[h])
    /\ commandsIn[h] = Waiting(inPushed[h], inPopped[h])
    /\ commandsOut[h] = Waiting(outPushed[h], outPopped[h])

\* two different commands were pushed on commands and both were popped
C5_Witness ==
  \E h \in Hosts :
    /\ Len(inPopped[h]) >= 2
    /\ inPopped[h][1] # inPopped[h][2]

NoIoError ==
  /\ \A c \in Conns : peerState[c] \in {"idle", "open"} /\ hostSide[c] # "dropped"
  /\ \A h \in Hosts : acceptErrs[h] = 0

\* C2: in the composed deployment a try_register that waits for the reply gets
\* [OK: []] and returns Ok, unless an I/O error happens.
C2_HandshakeCompletes ==
  (deployment = "composed" /\ tryPC = "await") ~> (tryPC = "registered" \/ ~NoIoError)

\* C3: once try_register has received its reply, it has returned Ok with the
\* connection stored under "home" if the reply is [OK: []], and has returned Err
\* with no entry added otherwise.
C3_RegisteredIffOk ==
  (tryPC \in {"registered", "rejected", "panicked"} /\ tryReply # NoReply) =>
    IF tryReply = OkText
      THEN /\ tryPC = "registered"
           /\ ContainsKey(registry["socket"], HomeKey)
           /\ registry["socket"][HomeKey] = tryConn
      ELSE /\ tryPC = "rejected"
           /\ \A k \in DOMAIN registry["socket"] : registry["socket"][k] # tryConn

\* C7: a Sender that has popped a command whose sender is no key of tcp_clients
\* drops it and goes on: it is idle again, not panicked, and no mutex is poisoned.
C7_MissDropsCommand ==
  [][\A h \in Hosts :
       ( /\ sdPC[h] = "popped"
         /\ ~regPoison[h]
         /\ ~ContainsKey(registry[h], sdCmd[h].sender)
         /\ sdPC'[h] # "popped" )
       => (sdPC'[h] = "idle" /\ outPoison' = outPoison /\ regPoison' = regPoison)]_vars

\* C8: a Reader that reads a frame that does not match the envelope grammar
\* pushes nothing, keeps the connection and waits for the next frame.
C8_MalformedFrameDropped ==
  [][\A c \in Conns :
       ( /\ rdPC[c] = "recv"
         /\ ReceiveOutcome(c) = "frame"
         /\ ~IsMatch(Head(c2h[c]))
         /\ c2h'[c] = Tail(c2h[c]) )
       => (rdPC'[c] = "recv" /\ commandsIn' = commandsIn /\ hostSide'[c] = "open")]_vars

\* C9: the step in which receive_request() fails on connection c ends the Reader
\* of c only: no other thread changes its position, no mutex is poisoned, and
\* every other thread that could take a step can still take one.
C9_ReceiveErrorContained ==
  [][\A c \in Conns :
       (rdPC[c] = "recv" /\ ReceiveOutcome(c) = "error" /\ rdPC'[c] # "recv") =>
         /\ rdPC'[c] = "done"
         /\ accPC' = accPC /\ anPC' = anPC /\ sdPC' = sdPC
         /\ \A d \in Conns \ {c} : rdPC'[d] = rdPC[d]
         /\ poisonVars' = poisonVars
         /\ registry' = registry /\ queueVars' = queueVars
         /\ \A h \in Hosts : AcceptorCanStep(h) => AcceptorCanStep(h)'
         /\ \A h \in Hosts : AnalyzerCanStep(h) => AnalyzerCanStep(h)'
         /\ \A h \in Hosts : SenderCanStep(h) => SenderCanStep(h)'
         /\ \A d \in Conns \ {c} : ReaderCanStep(d) => ReaderCanStep(d)']_vars

\* a Reader has ended on a receive error while the Reader of another connection
\* and the three loops of the entity are alive
C9_Witness ==
  \E c, d \in Conns :
    /\ c # d
    /\ connHost[c] = connHost[d]
    /\ rdPC[c] = "done"
    /\ rdPC[d] \in {"spawned", "inserted", "recv", "parsed"}
    /\ accPC[connHost[c]] = "running"
    /\ anPC[connHost[c]] # "panicked"
    /\ sdPC[connHost[c]] # "panicked"

\* C10: the Acceptor of every entity is running.
C10_AcceptorNeverStops == \A h \in Hosts : accPC[h] = "running"

\* a Reader is inside receive_request() / the Sender is inside send_string()
ReaderInReceive(c) == rdPC[c] = "recv"
SenderInSend(h) == sdPC[h] = "send"

\* C11: a Reader that is in receive_request() and the Sender while it is in
\* send_string() do not own the guard of tcp_clients.
C11_NoRegistryLockAcrossIo ==
  /\ \A c \in Conns : ReaderInReceive(c) => ~ReaderHoldsRegistry(c)
  /\ \A h \in Hosts : SenderInSend(h) => ~SenderHoldsRegistry(h)

\* the register commands with args name that the Analyzer of h has dispatched
RegisterCommands(h, name) ==
  { i \in 1..Len(inPopped[h]) :
      inPopped[h][i].command = RegisterVerb /\ inPopped[h][i].args = name }

\* the keys of tcp_clients of h under which a connection that registered name is kept
EntriesOf(h, name) ==
  { k \in DOMAIN registry[h] :
      \E i \in RegisterCommands(h, name) : inPopped[h][i].sender = k }

DeviceName == <<"d","e","v","0","1">>

\* C12: once the coordinator has dispatched two register commands that carry
\* the same name, its tcp_clients holds exactly one entry for that name.
C12_IdempotentRegistration ==
  Cardinality(RegisterCommands("home", DeviceName)) >= 2 =>
    Cardinality(EntriesOf("home", DeviceName)) = 1
\* the commands the Analyzer still has to enqueue for the command it is handling
AnalyzerPending(h) ==
  IF anPC[h] = "push1" THEN (IF h = "home" THEN 2 ELSE 1)
  ELSE IF anPC[h] = "push2" THEN 1 ELSE 0

\* OK then info, both with empty args, to the sender of a register command;
\* nothing for any other verb
RegisterAnswers(cmd) ==
  IF cmd.command = RegisterVerb
    THEN << [command |-> OkVerb, args |-> <<>>, sender |-> cmd.sender],
            [command |-> InfoVerb, args |-> <<>>, sender |-> cmd.sender] >>
    ELSE <<>>

RECURSIVE AllRegisterAnswers(_)
AllRegisterAnswers(popped) ==
  IF popped = <<>> THEN <<>>
  ELSE AllRegisterAnswers(SubSeq(popped, 1, Len(popped) - 1))
         \o RegisterAnswers(popped[Len(popped)])

InfoAnswers(cmd) ==
  IF cmd.command = InfoVerb
    THEN << [command |-> DeviceInfoVerb, args |-> SocketInfo, sender |-> cmd.sender] >>
    ELSE <<>>

RECURSIVE AllInfoAnswers(_)
AllInfoAnswers(popped) ==
  IF popped = <<>> THEN <<>>
  ELSE AllInfoAnswers(SubSeq(popped, 1, Len(popped) - 1))
         \o InfoAnswers(popped[Len(popped)])

ParsedFrom(c) ==
  \/ rdPC[c] = "parsed"
  \/ \E i \in 1..Len(inPushed[connHost[c]]) : inPushed[connHost[c]][i].sender = PeerAddr(c)

\* C15: tcp_clients holds connection c under its peer address only once a frame
\* read from c has been parsed; the Reader's step that adds the entry is taken
\* only when the address is no key yet; and every command on an inbound queue
\* has the peer address of a connection of that entity as its sender.
C15_RegisteredOnFirstFrame ==
  /\ \A c \in Conns :
       ( /\ connHost[c] \in Hosts
         /\ ContainsKey(registry[connHost[c]], PeerAddr(c))
         /\ registry[connHost[c]][PeerAddr(c)] = c )
       => ParsedFrom(c)
  /\ \A h \in Hosts : \A i \in 1..Len(commandsIn[h]) :
       \E c \in Conns : connHost[c] = h /\ commandsIn[h][i].sender = PeerAddr(c)
\* C16: no step removes a key from tcp_clients of any entity.
C16_EntriesNeverPruned ==
  [][\A h \in Hosts : \A k \in DOMAIN registry[h] : k \in DOMAIN registry'[h]]_vars

\* the Reader of a connection has ended on a receive error, the key of the
\* connection is still in tcp_clients, and another key was stored as well
C16_Witness ==
  \E c \in Conns :
    /\ connHost[c] \in Hosts
    /\ rdPC[c] = "done"
    /\ ContainsKey(registry[connHost[c]], PeerAddr(c))
    /\ Cardinality(DOMAIN registry[connHost[c]]) >= 2
\* a < b, a + b and a - b for lengths
LenLess(a, b) == a.big < b.big \/ (a.big = b.big /\ a.small < b.small)
LenSum(a, b) ==
  IF a.small + b.small >= U32Quarter
    THEN [big |-> a.big + b.big + 1, small |-> a.small + b.small - U32Quarter]
    ELSE [big |-> a.big + b.big, small |-> a.small + b.small]
Four == [big |-> 0, small |-> 4]

\* the first recv_string read a stream that held what one send_string wrote
OneFrameRead ==
  /\ ~injected
  /\ Len(received) >= 1
  /\ received[1].sends = 1

\* C17 as stated: reading one frame from the bytes written by send_string(S)
\* returns S, for every text S.
C17_RoundTrip ==
  OneFrameRead => (received[1].ok /\ received[1].text = sent[1])

\* C17: reading one frame from the bytes written by send_string(S) returns S,
\* for every text S of fewer than 2^32 bytes.
C17_RoundTripBelowU32 ==
  (OneFrameRead /\ BytesLen(as_bytes(sent[1])).big < 4) =>
    (received[1].ok /\ received[1].text = sent[1])

\* a text with a character of several bytes and a text of 2^30 bytes and more
\* have made the round trip
C17_Witness ==
  /\ OneFrameRead
  /\ received[1].ok /\ received[1].text = sent[1]
  /\ Len(received) = 2 /\ received[2].ok /\ received[2].sends = 2
  /\ received[2].text = sent[2]
  /\ \E i \in 1..Len(sent[1]) : sent[1][i].c > 127
  /\ BytesLen(as_bytes(sent[2])).big >= 1
\* the length the first four bytes of a byte sequence announce
Announced(bytes) ==
  [big |-> ByteAt(bytes, 1) \div 64,
   small |-> ((ByteAt(bytes, 1) % 64) * 16777216) + (ByteAt(bytes, 2) * 65536)
               + (ByteAt(bytes, 3) * 256) + ByteAt(bytes, 4)]

HasHeader(bytes) == ~LenLess(BytesLen(bytes), Four)
HasFrame(bytes) ==
  /\ HasHeader(bytes)
  /\ ~LenLess(BytesLen(bytes), LenSum(Four, Announced(bytes)))

\* the byte sequence starts with the frame of payload p
StartsWithFrame(bytes, p) ==
  LET frame == to_be_bytes(BytesLen(p)) \o p IN
  Len(frame) <= Len(bytes) /\ SubSeq(bytes, 1, Len(frame)) = frame

\* C18: a call of recv_string returns an error when the stream ends before four
\* bytes, when it ends before the announced number of payload bytes, and when
\* the payload is not valid UTF-8; when the stream holds the whole frame the
\* call takes exactly 4 + N bytes from it, N being the announced length.
C18_DecodeFailures ==
  \A i \in 1..Len(received) :
    LET r == received[i] IN
    /\ ~HasHeader(r.before) => ~r.ok
    /\ (HasHeader(r.before) /\ ~HasFrame(r.before)) => ~r.ok
    /\ \A p \in InvalidPayloads : StartsWithFrame(r.before, p) => ~r.ok
    /\ HasFrame(r.before) =>
         BytesLen(r.before) = LenSum(BytesLen(r.rest), LenSum(Four, Announced(r.before)))
    /\ r.ok => HasFrame(r.before)

\* a frame with a payload that is not valid UTF-8 was refused, and the frame
\* behind it was read by the next call
C18_Witness ==
  /\ Len(received) = 2
  /\ \E p \in InvalidPayloads : StartsWithFrame(received[1].before, p)
  /\ ~received[1].ok
  /\ received[2].ok /\ received[2].text = << Char(97) >>

\* the byte sequence starts with a length prefix of 0
AnnouncesZero(bytes) ==
  HasHeader(bytes) /\ \A k \in 1..4 : ByteAt(bytes, k) = 0

RoomExists(l, n) == Contains(rooms(l), n)

NoDuplicates(seq) == \A i, j \in 1..Len(seq) : i # j => seq[i] # seq[j]

\* C20: Home::add_room(name) returns Ok and name is in rooms() afterwards when
\* rooms() held no room of that name; it returns Err and rooms() is the same
\* when rooms() held one; and while only add_room and remove_room have been
\* called, rooms() holds no name twice.
C20_AddRoom ==
  /\ [][\A n \in EntityNames :
          AddRoom(n) =>
            IF RoomExists(links, n)
              THEN lastRes' = "err" /\ rooms(links') = rooms(links)
              ELSE lastRes' = "ok" /\ RoomExists(links', n)]_vars
  /\ [](roomCallsOnly => NoDuplicates(rooms(links)))

\* C21: Home::remove_room(name) on a room that rooms() lists returns Ok and
\* takes exactly that room out of rooms(): the list is one shorter, the name
\* is gone and the other rooms keep their order; a second remove_room(name)
\* returns Err and changes nothing.
C21_RemoveRoom ==
  [][\A n \in EntityNames :
       (RemoveRoom(n) /\ RoomExists(links, n)) =>
         /\ lastRes' = "ok"
         /\ Len(rooms(links')) = Len(rooms(links)) - 1
         /\ rooms(links') = VecRemove(rooms(links), Position(rooms(links), n))
         /\ ~RoomExists(links', n)
         /\ ServiceSchemaDevices_remove_room(links', n) = [res |-> "err", links |-> links']]_vars

\* Home::devices_in_room(room) lists a device of that name
DeviceInRoom(l, room, name) == Contains(room_devices(l, room), name)

\* ServiceDevices::get_device(name) is Some: the store holds a device of that name
DeviceStored(devs, name) == \E i \in 1..Len(devs) : devs[i].name = name

\* C22: Home::add_device(room, device) returns Ok and devices_in_room(room)
\* lists the device's name afterwards when the room is in rooms() and neither
\* the store nor the room holds such a device; it returns Err when the same
\* device is added again, and Err when rooms() holds no such room.
C22_AddDevice ==
  [][\A room \in EntityNames, name \in EntityNames, info \in DeviceInfos :
       AddDevice(room, [name |-> name, info |-> info]) =>
         /\ (RoomExists(links, room) /\ ~DeviceStored(devices, name)
               /\ ~DeviceInRoom(links, room, name))
              => (lastRes' = "ok" /\ DeviceInRoom(links', room, name))
         /\ StoreDevices_contains(devices, [name |-> name, info |-> info])
              => lastRes' = "err"
         /\ ~RoomExists(links, room) => lastRes' = "err"]_vars

\* C23: Home::remove_device(name), when a room of rooms() lists name and the
\* store holds a device of that name, returns Ok; afterwards
\* devices_in_room(room) is the list it was without name, one shorter, and
\* device(name) is None.
C23_RemoveDevice ==
  [][\A name \in EntityNames, room \in EntityNames :
       (/\ RemoveDevice(name)
        /\ RoomExists(links, room)
        /\ DeviceInRoom(links, room, name)
        /\ DeviceStored(devices, name)) =>
         /\ lastRes' = "ok"
         /\ ~DeviceInRoom(links', room, name)
         /\ Len(room_devices(links', room)) = Len(room_devices(links, room)) - 1
         /\ room_devices(links', room) =
              VecRemove(room_devices(links, room), Position(room_devices(links, room), name))
         /\ ~DeviceStored(devices', name)]_vars

\* C24: Home::device(name) is Some exactly for the names add_device returned Ok
\* for and remove_device has not removed since, so None for a name never
\* added; devices_in_room of a name rooms() does not list is empty.
C24_DeviceLookup ==
  /\ \A name \in EntityNames : DeviceStored(devices, name) <=> name \in addedOk
  /\ \A room \in EntityNames : ~RoomExists(links, room) => room_devices(links, room) = <<>>

\* every recv_string so far was called after the last send_string, on a stream
\* that held the frames of sent and nothing else
ReadAfterAllSends ==
  /\ ~injected
  /\ Len(received) >= 1
  /\ received[1].sends = Len(sent)

\* every text sent has fewer than 2^32 bytes
AllBelowU32 == \A i \in 1..Len(sent) : BytesLen(as_bytes(sent[i])).big < 4

\* C25: after send_string was called with S1, ..., Sn on one stream, each of
\* fewer than 2^32 bytes, the i-th recv_string (i <= n) returns Si, and the
\* four bytes it reads first announce exactly the number of bytes of Si.
C25_FrameBoundaries ==
  (ReadAfterAllSends /\ AllBelowU32) =>
    \A i \in 1..Len(received) :
      i <= Len(sent) =>
        /\ received[i].ok
        /\ received[i].text = sent[i]
        /\ Announced(received[i].before) = BytesLen(as_bytes(sent[i]))

\* two different texts, one with a character of several bytes, were sent and
\* then read back in order
C25_Witness ==
  /\ ReadAfterAllSends
  /\ AllBelowU32
  /\ Len(sent) = 2 /\ Len(received) = 2
  /\ sent[1] # sent[2]
  /\ \E i \in 1..Len(sent[1]) : sent[1][i].c > 127
  /\ sent[2] # <<>>
  /\ received[1].text = sent[1] /\ received[2].text = sent[2]

\* the text is [<verb>: [<args>]], verb and args of one or more word characters
IsEnvelope(t) ==
  LET j == RunEnd(t, 2, WordChars)
      m == RunEnd(t, j + 3, WordChars)
  IN  /\ Len(t) >= 8
      /\ t[1] = "["
      /\ j > 2 /\ j + 3 <= Len(t)
      /\ t[j] = ":" /\ t[j + 1] = " " /\ t[j + 2] = "["
      /\ m > j + 3 /\ m + 1 = Len(t)
      /\ t[m] = "]" /\ t[m + 1] = "]"

\* the Reader of c takes a frame off its connection
ReaderTakesFrame(c) ==
  rdPC[c] = "recv" /\ c2h[c] # <<>> /\ c2h'[c] = Tail(c2h[c])

\* C26: the Reader's parse of TcpCommand::to_string() of a verb and args of one
\* or more word characters yields a command with that verb and those args; and
\* the Reader's parse of a frame yields a command only if the text of the frame
\* is [<verb>: [<args>]] with verb and args of one or more word characters.
C26_EnvelopeRoundTrip ==
  [][\A c \in Conns :
       ReaderTakesFrame(c) =>
         /\ \A v \in EnvelopeVerbs, a \in EnvelopeArgs :
              Head(c2h[c]) = to_string(TcpCommand(v, a, "")) =>
                (rdPC'[c] = "parsed" /\ rdCmd'[c].command = v /\ rdCmd'[c].args = a)
         /\ rdPC'[c] = "parsed" => IsEnvelope(Head(c2h[c]))]_vars

\* the Reader of c owns the guard of tcp_clients and is at the lock of commands
ReaderWaitsIn(c) == rdPC[c] = "parsed"

\* the Analyzer of h owns the guard of commands and is at a lock of commands_out
AnalyzerWaitsOut(h) == anPC[h] \in {"push1", "push2"}

\* the Sender of h owns the guard of commands_out and is at the lock of tcp_clients
SenderWaitsRegistry(h) == sdPC[h] = "popped"

\* Reader, Analyzer and Sender of h each own the lock the next one is waiting for
CircularWait(h) ==
  /\ \E c \in Conns : connHost[c] = h /\ ReaderHoldsRegistry(c) /\ ReaderWaitsIn(c)
  /\ AnalyzerHoldsIn(h) /\ AnalyzerWaitsOut(h)
  /\ SenderHoldsOut(h) /\ SenderWaitsRegistry(h)

\* C27: in no reachable state do a Reader that holds the registry lock and
\* waits for the inbound queue lock, the Analyzer that holds the inbound queue
\* lock and waits for the outbound queue lock, and the Sender that holds the
\* outbound queue lock and waits for the registry lock wait on each other.
C27_NoCircularWait == \A h \in Hosts : ~CircularWait(h)

\* the connection of c is open and idle: its Reader is blocked in
\* receive_request() with nothing to read
ReaderIdle(c) == rdPC[c] = "recv" /\ ReceiveOutcome(c) = "blocked"

\* the Reader of d is at a lock of tcp_clients that another thread owns
ReaderBlockedOnRegistry(d) ==
  /\ \/ rdPC[d] = "spawned" /\ ~PeerAddrFails(d)
     \/ rdPC[d] = "inserted"
  /\ ~RegFree(connHost[d])

\* C28: two peers connected to one entity progress independently: while the
\* connection of one is open and idle, the Reader of the other is not kept
\* from registering its identity, from starting or from pushing its commands.
C28_IndependentProgress ==
  \A c \in Conns, d \in Conns :
    (c # d /\ connHost[c] = connHost[d] /\ ReaderIdle(c)) => ~ReaderBlockedOnRegistry(d)

\* an info command is, or has been, on the peripheral's inbound queue
InfoQueuedOnSocket ==
  \E i \in 1..Len(inPushed["socket"]) : inPushed["socket"][i].command = InfoVerb

\* try_register has returned Ok and the coordinator has written [info: []] on
\* the connection try_register opened
InfoFrameSent ==
  /\ tryPC = "registered"
  /\ \E i \in 1..Len(h2c[tryConn]) : h2c[tryConn][i] = to_string(TcpCommand(InfoVerb, <<>>, ""))

\* C29: once try_register has returned Ok and the coordinator has sent its
\* [info: []] frame to the peripheral, the frame is eventually read by a Reader
\* of the peripheral and becomes an info command on the peripheral's inbound
\* queue (which the Analyzer then answers with device_info).
C29_InfoAfterRegistration == InfoFrameSent ~> InfoQueuedOnSocket

\* try_register gets a reply while tcp_clients of the peripheral has the key home
SecondRegistration ==
  /\ tryPC = "await" /\ tryPC' # "await"
  /\ TryRecvOutcome(tryConn) = "frame"
  /\ ContainsKey(registry["socket"], HomeKey)

\* C30: save_tcp_client(connection, name), on a registry whose mutex is not
\* poisoned, leaves the registry as it is when name is a key already and
\* inserts the entry otherwise; and a try_register on
\* a peripheral that is registered already returns (Ok or Err), it does not
\* panic, and the entry under home stays the first one.
C30_SaveNeverReplaces ==
  [][/\ \A h \in Hosts, name \in SaveNames :
          (AppSave(h, name) /\ ~regPoison[h]) =>
            IF ContainsKey(registry[h], name)
              THEN registry' = registry
              ELSE registry' = [registry EXCEPT ![h] = Insert(@, name, AppStream)]
     /\ SecondRegistration =>
          (tryPC' \in {"registered", "rejected"} /\ registry' = registry)]_vars

\* what a caller of Home can see is the same after the step: the device
\* store, rooms() and devices_in_room of every name
HomeUnchanged ==
  /\ devices' = devices
  /\ rooms(links') = rooms(links)
  /\ \A room \in EntityNames : room_devices(links', room) = room_devices(links, room)

\* C31: a call of Home::add_device or Home::remove_device that returns Err
\* leaves the device store, rooms() and the device list of every room as they
\* were before the call.
C31_FailedCallChangesNothing ==
  [][/\ \A room \in EntityNames, name \in EntityNames, info \in DeviceInfos :
          (AddDevice(room, [name |-> name, info |-> info]) /\ lastRes' = "err")
            => HomeUnchanged
     /\ \A name \in EntityNames :
          (RemoveDevice(name) /\ lastRes' = "err") => HomeUnchanged]_vars

\* C32: no two devices in the device store have the same name, after any
\* sequence of calls of add_device and remove_device (and of the room calls
\* that let add_device succeed).
C32_UniqueDeviceNames ==
  \A i, j \in 1..Len(devices) : i # j => devices[i].name # devices[j].name

NoReference(l, d) ==
  /\ d \notin DOMAIN l
  /\ \A k \in DOMAIN l : ~Contains(l[k], d)

\* C33: after remove_device(d) returns Ok, d is neither a key of the schema
\* links nor an element of any entity list (no room's device list and no
\* device's connected list), also when d had been connected to another device.
C33_NoDanglingReference ==
  [][\A d \in EntityNames :
       (RemoveDevice(d) /\ lastRes' = "ok") => NoReference(links', d)]_vars

\* C34: in every state reachable by add_room, remove_room, add_device,
\* remove_device and connect_device calls with any names, "HOME" included,
\* the links map has the key "HOME", and neither add_room nor remove_room
\* ends in the 'without root HOME' panic.
C34_RootAlwaysPresent ==
  /\ [](HOME_NAME \in DOMAIN links)
  /\ [][\A room \in EntityNames :
          (AddRoom(room) \/ RemoveRoom(room)) => lastRes' # "panic"]_vars

\* C35: a successful add_device(room, d) appends d to room's device list and
\* changes nothing else: the device lists of all other rooms are unchanged and
\* the devices already listed in room stay, for every device name d, one equal
\* to a room name included.
C35_AddDeviceFrame ==
  [][\A room \in EntityNames, d \in EntityNames, info \in DeviceInfos :
       (AddDevice(room, [name |-> d, info |-> info]) /\ lastRes' = "ok") =>
         /\ room_devices(links', room) = Append(room_devices(links, room), d)
         /\ \A other \in (DOMAIN links) \ {room} :
              /\ other \in DOMAIN links'
              /\ links'[other] = links[other]]_vars

ConnectFails(l, room, to, from) ==
  \/ ~contains_device_in_room(l, room, to)
  \/ ~contains_device_in_room(l, room, from)
  \/ Contains(entities(l, to), from)

\* C36: Home::connect_device(room, to, from) reports failure as a returned
\* Err, without crashing and without changing the schema, when either device
\* is not in the room or when from is already connected to to; on success
\* from is appended once to to's connected list.
C36_ConnectDevice ==
  [][\A room \in EntityNames, to \in EntityNames, from \in EntityNames :
       ConnectDevice(room, to, from) =>
         IF ConnectFails(links, room, to, from)
           THEN lastRes' = "err" /\ links' = links
           ELSE /\ lastRes' = "ok"
                /\ links' = [links EXCEPT ![to] = Append(@, from)]]_vars

\* C37: after any sequence of add_room, remove_room, add_device and
\* remove_device calls, every device held in the device store is listed in the
\* device list of some room that is currently in rooms(), and every name in a
\* room's device list is a device in the store.
C37_StoreSchemaConsistent ==
  /\ \A i \in 1..Len(devices) :
       \E j \in 1..Len(rooms(links)) :
         Contains(room_devices(links, rooms(links)[j]), devices[i].name)
  /\ \A j \in 1..Len(rooms(links)) :
       \A n \in 1..Len(room_devices(links, rooms(links)[j])) :
         \E i \in 1..Len(devices) :
           devices[i].name = room_devices(links, rooms(links)[j])[n]

\* The coordinator and the peripheral with try_register as the only client
\* (examples/tcp_home.rs), or the peripheral against a foreign coordinator; the
\* threads are scheduled fairly.  No queue gets a command the Sender could
\* resolve while the Reader of the registration connection waits with the
\* tcp_clients guard, so of the Sender's steps only the pop is listed; Fairness
\* still speaks of all of them.
NextRegistration ==
  \/ \E h \in Hosts : AcceptOk(h)
  \/ \E c \in Conns : ReaderInsert(c)
  \/ \E c \in Conns : ReaderLock(c)
  \/ \E c \in Conns : ReaderReceive(c)
  \/ \E c \in Conns : ReaderPush(c)
  \/ \E h \in Hosts : AnalyzerPop(h)
  \/ \E h \in Hosts : AnalyzerFirst(h)
  \/ \E h \in Hosts : AnalyzerSecond(h)
  \/ \E h \in Hosts : SenderPop(h)
  \/ \E h \in Hosts, name \in SaveNames : AppSave(h, name)
  \/ TryStart
  \/ TryReceive
  \/ \E c \in Conns, t \in ReplyTexts : StubReply(c, t)
  \/ \E c \in Conns : StubClose(c)

FairSpecRegistration == Init /\ [][NextRegistration]_vars /\ Fairness

\* in that setting the Sender never gets to look its connection up
SenderNeverResolves == \A h \in Hosts : sdPC[h] # "popped" \/ ~RegFree(h)

=============================================================================
